---------------------------- MODULE Spec2Model ----------------------------
(***************************************************************************)
(* A model of the RFQ bid system: the spreadsheet parser (rfq_parser.py),  *)
(* the split-award subset optimiser (rfq_app.py, subset_enum) and the      *)
(* SQLite persistence layer (rfq_db.py).                                   *)
(*                                                                         *)
(* Text is a sequence of one-character strings, so that strip, lower,      *)
(* upper, split and endswith are computed character by character.  A cell  *)
(* of a worksheet is None, a number or a text; numbers are Python ints.    *)
(***************************************************************************)
EXTENDS Integers, Sequences, FiniteSets, TLC

VARIABLES
    \* _extract_type_spec(description)
    description, ts_pc, item_type, specification,
    \* _parse_format_b(rows, header_idx, header_cols)
    header_cols, col_i, b_rfq_map, b_bidder_map,
    \* parse_excel: the data-row loop
    rows, rfq_map, bidder_map, row_i, items, item_rows,
    \* subset_enum
    opt_items, opt_bids, opt_pc, item_costs, all_bidders, k, combo, best_cost,
    best_subset, best_covered, best_uncovered, baseline_cost, results, response,
    units_per_dollar,
    \* the SQLite store and one connection of load_parsed_rfq / delete_rfq
    store, conn, db_pc, db_call, db_pre, db_outcome, db_calls,
    \* parse_excel up to the header row, with _find_header_row
    sheet_rows, sheet_name, find_i, header_idx, pe_pc, pe_result, ambiguities,
    \* _detect_format_b(header_cols) and the format parse_excel takes
    dt_header, dt_pc, dt_result, fmt,
    \* _parse_format_ac(rows, header_idx, header_cols)
    ac_rows, ac_header, ac_pc, ac_i, bidder_names_at_col, best_avg,
    ac_rfq_map, col_roles, ac_bidder_map,
    \* _jaccard(a, b)
    jac_a, jac_b, jac_pc, jac_result,
    \* estimate_rfq(rfq_id)
    er_found, target_items, hist_table, hist_bids, er_pc, er_i, estimates, uncovered,
    total_low, total_mean, total_high, er_response

tsVars  == <<description, ts_pc, item_type, specification>>
fbVars  == <<header_cols, col_i, b_rfq_map, b_bidder_map>>
rowVars == <<rows, rfq_map, bidder_map, row_i, items, item_rows>>
optVars == <<opt_items, opt_bids, opt_pc, item_costs, all_bidders, k, combo,
             best_cost, best_subset, best_covered, best_uncovered, baseline_cost,
             results, response, units_per_dollar>>
dbVars  == <<store, conn, db_pc, db_call, db_pre, db_outcome, db_calls>>
hdVars  == <<sheet_rows, sheet_name, find_i, header_idx, pe_pc, pe_result, ambiguities>>
dtVars  == <<dt_header, dt_pc, dt_result, fmt>>
acVars  == <<ac_rows, ac_header, ac_pc, ac_i, bidder_names_at_col, best_avg,
             ac_rfq_map, col_roles, ac_bidder_map>>
parseVars == <<hdVars, dtVars, acVars>>
jacVars == <<jac_a, jac_b, jac_pc, jac_result>>
erVars  == <<er_found, target_items, hist_table, hist_bids, er_pc, er_i, estimates,
             uncovered, total_low, total_mean, total_high, er_response>>
estVars == <<jacVars, erVars>>
vars    == <<tsVars, fbVars, rowVars, optVars, dbVars, parseVars, estVars>>

----------------------------------------------------------------------------
(* Cells and Python's str operations on them.                              *)

NoneCell == [t |-> "none", n |-> 0, s |-> <<>>]
Num(n)   == [t |-> "num", n |-> n, s |-> <<>>]
Txt(s)   == [t |-> "str", n |-> 0, s |-> s]

IsNone(c) == c.t = "none"

\* Python truthiness of a cell: None, 0 and "" are false.
Truthy(c) == \/ c.t = "num" /\ c.n # 0
             \/ c.t = "str" /\ c.s # <<>>

UpperChars == <<"A","B","C","D","E","F","G","H","I","J","K","L","M",
                "N","O","P","Q","R","S","T","U","V","W","X","Y","Z">>
LowerChars == <<"a","b","c","d","e","f","g","h","i","j","k","l","m",
                "n","o","p","q","r","s","t","u","v","w","x","y","z">>
Digits     == <<"0","1","2","3","4","5","6","7","8","9">>
Whitespace == {" "}

ToLower == [c \in {UpperChars[i] : i \in DOMAIN UpperChars} |->
               LowerChars[CHOOSE i \in DOMAIN UpperChars : UpperChars[i] = c]]
ToUpper == [c \in {LowerChars[i] : i \in DOMAIN LowerChars} |->
               UpperChars[CHOOSE i \in DOMAIN LowerChars : LowerChars[i] = c]]

LowerCh(c) == IF c \in DOMAIN ToLower THEN ToLower[c] ELSE c
UpperCh(c) == IF c \in DOMAIN ToUpper THEN ToUpper[c] ELSE c

Lower(s) == [i \in DOMAIN s |-> LowerCh(s[i])]
Upper(s) == [i \in DOMAIN s |-> UpperCh(s[i])]

\* s[a:b] of Python, 0-based and end-exclusive, for 0 <= a.
Slice(s, a, b) == IF b <= a THEN <<>> ELSE SubSeq(s, a + 1, IF b > Len(s) THEN Len(s) ELSE b)

RECURSIVE LStripSet(_, _)
LStripSet(s, cs) == IF s # <<>> /\ Head(s) \in cs THEN LStripSet(Tail(s), cs) ELSE s

RECURSIVE RStripSet(_, _)
RStripSet(s, cs) == IF s # <<>> /\ s[Len(s)] \in cs
                       THEN RStripSet(SubSeq(s, 1, Len(s) - 1), cs) ELSE s

\* str.strip(), str.rstrip("_")
Strip(s) == RStripSet(LStripSet(s, Whitespace), Whitespace)

EndsWith(s, suf) == /\ Len(suf) <= Len(s)
                    /\ SubSeq(s, Len(s) - Len(suf) + 1, Len(s)) = suf

Contains(s, c) == \E i \in DOMAIN s : s[i] = c

\* str.find(c) as a 1-based index of the first occurrence (0 when absent)
FirstIndex(s, cs) == IF \E i \in DOMAIN s : s[i] \in cs
                        THEN CHOOSE i \in DOMAIN s :
                                 s[i] \in cs /\ \A j \in 1..(i - 1) : s[j] \notin cs
                        ELSE 0

\* str.replace(c, r) for a one-character c and a replacement text r
RECURSIVE Replace(_, _, _)
Replace(s, c, r) == IF s = <<>> THEN <<>>
                    ELSE (IF Head(s) = c THEN r ELSE <<Head(s)>>) \o Replace(Tail(s), c, r)

\* str.split(): the whitespace-delimited words
RECURSIVE Words(_)
Words(s) == LET t == LStripSet(s, Whitespace)
                p == FirstIndex(t, Whitespace)
            IN  IF t = <<>> THEN <<>>
                ELSE IF p = 0 THEN <<t>>
                ELSE <<SubSeq(t, 1, p - 1)>> \o Words(SubSeq(t, p, Len(t)))

\* str(n) for a Python int
RECURSIVE NatStr(_)
NatStr(n) == IF n < 10 THEN <<Digits[n + 1]>>
             ELSE NatStr(n \div 10) \o <<Digits[(n % 10) + 1]>>
IntStr(n) == IF n < 0 THEN <<"-">> \o NatStr(-n) ELSE NatStr(n)

\* str(val)
PyStr(c) == CASE c.t = "none" -> <<"N","o","n","e">>
              [] c.t = "num"  -> IntStr(c.n)
              [] OTHER        -> c.s

\* All texts over an alphabet up to a length
RECURSIVE TextsOfLen(_, _)
TextsOfLen(alpha, n) == IF n = 0 THEN {<<>>}
                        ELSE {<<c>> \o t : c \in alpha, t \in TextsOfLen(alpha, n - 1)}
TextsUpTo(alpha, n) == UNION {TextsOfLen(alpha, m) : m \in 0..n}

----------------------------------------------------------------------------
(* rfq_parser._extract_type_spec                                           *)

MaxDescLen == 4
DescAlphabet == {"a", "B", ",", " "}
DescCells == {NoneCell, Num(0), Num(7)} \cup {Txt(t) : t \in TextsUpTo(DescAlphabet, MaxDescLen)}

(* The description cell is split as _extract_type_spec splits it except    *)
(* that the last comma is taken instead of the first (str.rsplit).         *)
LastIndex(s, cs) == IF \E i \in DOMAIN s : s[i] \in cs
                       THEN CHOOSE i \in DOMAIN s :
                                s[i] \in cs /\ \A j \in (i + 1)..Len(s) : s[j] \notin cs
                       ELSE 0

ExtractTypeSpecLastComma(d) ==
    IF ~Truthy(d) THEN <<<<>>, <<>>>>
    ELSE LET descr == Strip(PyStr(d))
             p     == LastIndex(descr, {","})
             w     == FirstIndex(descr, Whitespace)
         IN  IF p # 0
               THEN <<Upper(Strip(SubSeq(descr, 1, p - 1))),
                      Strip(SubSeq(descr, p + 1, Len(descr)))>>
             ELSE IF descr = <<>> THEN <<<<>>, <<>>>>
             ELSE IF w = 0 THEN <<Upper(descr), <<>>>>
             ELSE <<Upper(SubSeq(descr, 1, w - 1)),
                    Strip(SubSeq(descr, w, Len(descr)))>>

\* (item_type, specification) of a description cell
_extract_type_spec(d) ==
    IF ~Truthy(d) THEN <<<<>>, <<>>>>
    ELSE LET descr == Strip(PyStr(d))
             p     == FirstIndex(descr, {","})
             w     == FirstIndex(descr, Whitespace)
         IN  IF p # 0
               THEN <<Upper(Strip(SubSeq(descr, 1, p - 1))),
                      Strip(SubSeq(descr, p + 1, Len(descr)))>>
             ELSE IF descr = <<>> THEN <<<<>>, <<>>>>
             ELSE IF w = 0 THEN <<Upper(descr), <<>>>>
             ELSE <<Upper(SubSeq(descr, 1, w - 1)),
                    Strip(SubSeq(descr, w, Len(descr)))>>

TsIdle == /\ description = NoneCell /\ ts_pc = "idle"
          /\ item_type = <<>> /\ specification = <<>>

TsInit == /\ description \in DescCells
          /\ ts_pc = "call"
          /\ item_type = <<>> /\ specification = <<>>

ExtractTypeSpec ==
    /\ ts_pc = "call"
    /\ item_type' = _extract_type_spec(description)[1]
    /\ specification' = _extract_type_spec(description)[2]
    /\ ts_pc' = "done"
    /\ UNCHANGED <<description, fbVars, rowVars, optVars, dbVars,
                   parseVars, estVars>>

----------------------------------------------------------------------------
(* Synonym maps of rfq_parser.py, all lower-case.                          *)

UNIT_PRICE_SYNONYMS ==
   {<<"u","n","i","t"," ","c","o","s","t">>,
    <<"u","n","i","t"," ","p","r","i","c","e">>,
    <<"u","n","i","t","_","c","o","s","t">>,
    <<"u","n","i","t","_","p","r","i","c","e">>,
    <<"u","n","i","t","p","r","i","c","e">>}
EXT_PRICE_SYNONYMS ==
   {<<"e","x","t"," ","c","o","s","t">>,
    <<"e","x","t"," ","p","r","i","c","e">>,
    <<"e","x","t","."," ","c","o","s","t">>,
    <<"e","x","t","."," ","p","r","i","c","e">>,
    <<"e","x","t","_","c","o","s","t">>,
    <<"e","x","t","_","p","r","i","c","e">>,
    <<"e","x","t","e","n","d","e","d"," ","c","o","s","t">>,
    <<"e","x","t","e","n","d","e","d"," ","p","r","i","c","e">>,
    <<"e","x","t","p","r","i","c","e">>,
    <<"t","o","t","a","l"," ","p","r","i","c","e">>,
    <<"t","o","t","a","l","_","p","r","i","c","e">>,
    <<"t","o","t","a","l","p","r","i","c","e">>}
ITEM_NUM_SYNONYMS ==
   {<<"i","t","e","m"," ","#">>,
    <<"i","t","e","m"," ","n","o">>,
    <<"i","t","e","m"," ","n","o",".">>,
    <<"i","t","e","m"," ","n","u","m","b","e","r">>,
    <<"i","t","e","m","#">>,
    <<"l","i","n","e"," ","n","o">>,
    <<"l","i","n","e"," ","n","o",".">>}
DESC_SYNONYMS ==
   {<<"d","e","s","c">>,
    <<"d","e","s","c","r","i","p","t","i","o","n">>}
UNIT_SYNONYMS ==
   {<<"u","n","i","t">>,
    <<"u","n","i","t"," ","o","f"," ","m","e","a","s","u","r","e">>,
    <<"u","n","i","t","s">>,
    <<"u","o","m">>}
QTY_SYNONYMS ==
   {<<"q","t","y">>,
    <<"q","t","y"," ","q","u","o","t","e","d">>,
    <<"q","u","a","n","t","i","t","y">>,
    <<"u","n","i","t","s"," ","q","u","o","t","e","d">>}
SIZE_SYNONYMS ==
   {<<"s","i","z","e">>}

\* _norm(val): lower-cased, stripped text of a cell, "" for None
_norm(c) == IF IsNone(c) THEN <<>> ELSE Lower(Strip(PyStr(c)))

_matches(c, synonyms) == _norm(c) \in synonyms

\* dict[key] = value
Put(f, key, v) == [x \in DOMAIN f \cup {key} |-> IF x = key THEN v ELSE f[x]]
EmptyMap == <<>>

\* sub in s
HasSub(s, sub) == \E i \in 0..(Len(s) - Len(sub)) : SubSeq(s, i + 1, i + Len(sub)) = sub

----------------------------------------------------------------------------
(* rfq_parser._parse_format_b: one header cell, then the loop over the     *)
(* header columns.                                                         *)

\* first loop: the candidates the synonyms of UNIT_PRICE_SYNONYMS give for s.
\* The loop stops at the first synonym that matches, in the set's iteration
\* order, so every matching synonym may be that one.
UnitHits(s) ==
    LET s_low == Lower(s)
    IN  {RStripSet(Slice(s, 0, Len(s) - (Len(Replace(syn, " ", <<"_">>)) + 1)), {"_"}) :
            syn \in {y \in UNIT_PRICE_SYNONYMS :
                        \/ EndsWith(s_low, <<"_">> \o Replace(y, " ", <<"_">>))
                        \/ EndsWith(s_low, <<"_">> \o y)}}

\* syn.replace(" ", "_").replace(".", "")
SynUnder(syn) == Replace(Replace(syn, " ", <<"_">>), ".", <<>>)

\* second loop: the cell is compared with its dots removed and its spaces
\* made underscores, and the candidate is cut from the cell as it stands.
ExtHits(s) ==
    LET s_test == Replace(Replace(Lower(s), ".", <<>>), " ", <<"_">>)
    IN  {RStripSet(Slice(s, 0, Len(s) - (Len(SynUnder(syn)) + 1)), {"_"}) :
            syn \in {y \in EXT_PRICE_SYNONYMS : EndsWith(s_test, <<"_">> \o SynUnder(y))}}

\* (UNIT.?PRICE|UNIT.?COST|TOTAL.?PRICE|EXT.?PRICE|EXT.?COST), re.IGNORECASE
RegexPairs == {<<<<"U","N","I","T">>, <<"P","R","I","C","E">>>>,
               <<<<"U","N","I","T">>, <<"C","O","S","T">>>>,
               <<<<"T","O","T","A","L">>, <<"P","R","I","C","E">>>>,
               <<<<"E","X","T">>, <<"P","R","I","C","E">>>>,
               <<<<"E","X","T">>, <<"C","O","S","T">>>>}
IsRegexSuffix(r) ==
    \E pr \in RegexPairs :
        \/ Upper(r) = pr[1] \o pr[2]
        \/ /\ Len(r) = Len(pr[1]) + Len(pr[2]) + 1
           /\ SubSeq(Upper(r), 1, Len(pr[1])) = pr[1]
           /\ EndsWith(Upper(r), pr[2])

\* ^(.+?)_(...)$ : the positions of an underscore after a non-empty prefix
\* and before a suffix of the pattern; the non-greedy group takes the first.
RegexSplits(s) == {i \in 2..Len(s) : s[i] = "_" /\ IsRegexSuffix(SubSeq(s, i + 1, Len(s)))}
Min(S) == CHOOSE x \in S : \A y \in S : x <= y
Max(S) == CHOOSE x \in S : \A y \in S : x >= y

RegexField(field_raw) ==
    IF /\ (HasSub(field_raw, <<"u","n","i","t">>) \/ HasSub(field_raw, <<"c","o","s","t">>))
       /\ ~HasSub(field_raw, <<"t","o","t","a","l">>)
       /\ ~HasSub(field_raw, <<"e","x","t">>)
    THEN "unit_price" ELSE "ext_price"

PRICE_ENDINGS_UNIT ==
   {<<"u","n","i","t"," ","p","r","i","c","e">>,
    <<"u","n","i","t"," ","c","o","s","t">>}
PRICE_ENDINGS_EXT ==
   {<<"t","o","t","a","l"," ","p","r","i","c","e">>,
    <<"e","x","t"," ","p","r","i","c","e">>,
    <<"e","x","t","."," ","p","r","i","c","e">>,
    <<"e","x","t","e","n","d","e","d"," ","p","r","i","c","e">>,
    <<"e","x","t"," ","c","o","s","t">>,
    <<"e","x","t","."," ","c","o","s","t">>,
    <<"e","x","t","e","n","d","e","d"," ","c","o","s","t">>}

NoMatch == [bidder |-> <<>>, field |-> "none"]

\* fourth attempt: the last two of at least three words
SpaceStage(s) ==
    LET words    == Words(Replace(s, ">", <<".">>))
        n        == Len(words)
        last_two == Lower(words[n - 1] \o <<" ">> \o words[n])
    IN  IF n >= 3 /\ last_two \in PRICE_ENDINGS_UNIT
          THEN {[bidder |-> Upper(words[1]), field |-> "unit_price"]}
        ELSE IF n >= 3 /\ last_two \in PRICE_ENDINGS_EXT
          THEN {[bidder |-> Upper(words[1]), field |-> "ext_price"]}
        ELSE {NoMatch}

\* third attempt: the regular expression
RegexStage(s) ==
    LET splits == RegexSplits(s)
        i      == Min(splits)
    IN  IF splits # {}
          THEN {[bidder |-> Upper(SubSeq(s, 1, i - 1)),
                 field  |-> RegexField(Lower(SubSeq(s, i + 1, Len(s))))]}
        ELSE SpaceStage(s)

ExtStage(s) ==
    LET hits == ExtHits(s)
    IN  {[bidder |-> Upper(c), field |-> "ext_price"] : c \in hits \ {<<>>}}
        \cup (IF hits = {} \/ <<>> \in hits THEN RegexStage(s) ELSE {})

\* (matched_bidder, matched_field) of the stripped header text s; an empty
\* bidder is no match.
MatchHeader(s) ==
    LET hits == UnitHits(s)
    IN  {[bidder |-> Upper(c), field |-> "unit_price"] : c \in hits \ {<<>>}}
        \cup (IF hits = {} \/ <<>> \in hits THEN ExtStage(s) ELSE {})

\* the role of a header cell that names no bidder
RfqRole(h) ==
    CASE _matches(h, ITEM_NUM_SYNONYMS) -> "item_num"
      [] _matches(h, DESC_SYNONYMS)     -> "description"
      [] _matches(h, UNIT_SYNONYMS)     -> "unit"
      [] _matches(h, QTY_SYNONYMS)      -> "quantity"
      [] _matches(h, SIZE_SYNONYMS)     -> "size"
      [] OTHER                          -> "none"

MaxCols == 2
HdrPrefixes == {<<"w">>, <<"A","b">>}
UnderscoreSuffixes ==
   {<<"U","N","I","T","_","P","R","I","C","E">>,
    <<"T","O","T","A","L","_","P","R","I","C","E">>,
    <<"U","N","I","T","_","C","O","S","T">>,
    <<"E","X","T","_","C","O","S","T">>,
    <<"E","X","T","_","P","R","I","C","E">>}
SpaceSuffixes ==
   {<<"U","N","I","T"," ","P","R","I","C","E">>,
    <<"U","N","I","T"," ","C","O","S","T">>,
    <<"T","O","T","A","L"," ","P","R","I","C","E">>,
    <<"E","X","T"," ","P","R","I","C","E">>,
    <<"E","X","T","."," ","P","R","I","C","E">>,
    <<"E","X","T","E","N","D","E","D"," ","P","R","I","C","E">>,
    <<"E","X","T"," ","C","O","S","T">>,
    <<"E","X","T","."," ","C","O","S","T">>,
    <<"E","X","T","E","N","D","E","D"," ","C","O","S","T">>}

\* a bidder prefix joined to a price suffix in one style
UnderscoreHeader(pre, suf) == pre \o <<"_">> \o suf
SpaceHeader(pre, suf)      == pre \o <<" ">> \o suf

HeaderCells ==
    {NoneCell, Txt(<<"I","T","E","M"," ","#">>), Txt(<<" ","D","e","s","c">>), Txt(<<"Q","T","Y">>)}
    \cup {Txt(UnderscoreHeader(pre, suf)) : pre \in HdrPrefixes, suf \in UnderscoreSuffixes}
    \cup {Txt(SpaceHeader(pre, suf)) : pre \in HdrPrefixes, suf \in SpaceSuffixes}

FbIdle == /\ header_cols = <<>> /\ col_i = 0
          /\ b_rfq_map = EmptyMap /\ b_bidder_map = EmptyMap

FbInit == /\ header_cols \in UNION {[1..n -> HeaderCells] : n \in 1..MaxCols}
          /\ col_i = 0
          /\ b_rfq_map = EmptyMap /\ b_bidder_map = EmptyMap

\* one turn of "for col_i, h in enumerate(header_cols)"
ParseFormatBColumn ==
    /\ col_i < Len(header_cols)
    /\ col_i' = col_i + 1
    /\ LET h == header_cols[col_i + 1]
       IN  IF IsNone(h)
             THEN UNCHANGED <<b_rfq_map, b_bidder_map>>
           ELSE \E m \in MatchHeader(Strip(PyStr(h))) :
                  IF m.bidder # <<>>
                    THEN /\ b_bidder_map' =
                              Put(b_bidder_map, m.bidder,
                                  Put(IF m.bidder \in DOMAIN b_bidder_map
                                        THEN b_bidder_map[m.bidder] ELSE EmptyMap,
                                      m.field, col_i))
                         /\ UNCHANGED b_rfq_map
                  ELSE /\ b_rfq_map' = IF RfqRole(h) = "none" THEN b_rfq_map
                                       ELSE Put(b_rfq_map, RfqRole(h), col_i)
                       /\ UNCHANGED b_bidder_map
    /\ UNCHANGED <<header_cols, tsVars, rowVars, optVars, dbVars,
                   parseVars, estVars>>

----------------------------------------------------------------------------
(* rfq_parser.parse_excel: the loop over the rows after the header row.    *)

\* float(s) of a text: surrounding blanks, an optional sign, digits
DigitVal(c) == (CHOOSE i \in DOMAIN Digits : Digits[i] = c) - 1
IsDigit(c)  == \E i \in DOMAIN Digits : Digits[i] = c

RECURSIVE DigitsVal(_)
DigitsVal(s) == IF s = <<>> THEN 0
                ELSE 10 * DigitsVal(SubSeq(s, 1, Len(s) - 1)) + DigitVal(s[Len(s)])

IsFloatText(s) ==
    LET t == Strip(s)
        d == IF t # <<>> /\ Head(t) \in {"-", "+"} THEN Tail(t) ELSE t
    IN  d # <<>> /\ \A i \in DOMAIN d : IsDigit(d[i])

FloatOfText(s) ==
    LET t == Strip(s)
    IN  IF Head(t) = "-" THEN -DigitsVal(Tail(t))
        ELSE IF Head(t) = "+" THEN DigitsVal(Tail(t))
        ELSE DigitsVal(t)

\* _safe_float(val): a number, or None when the cell does not convert
_safe_float(c) ==
    IF IsNone(c) THEN NoneCell
    ELSE IF c.t = "num" THEN Num(c.n)
    ELSE IF IsFloatText(c.s) THEN Num(FloatOfText(c.s))
    ELSE LET s == Strip(Replace(Replace(c.s, ",", <<>>), "$", <<>>))
         IN  IF IsFloatText(s) THEN Num(FloatOfText(s)) ELSE NoneCell

ItemNumberMaxLen == 20

\* _is_data_row without the test of the length
IsDataRowAnyLength(row, rmap) ==
    /\ "item_num" \in DOMAIN rmap
    /\ rmap["item_num"] < Len(row)
    /\ ~IsNone(row[rmap["item_num"] + 1])
    /\ Strip(PyStr(row[rmap["item_num"] + 1])) # <<>>

_is_data_row(row, rmap) ==
    /\ "item_num" \in DOMAIN rmap
    /\ rmap["item_num"] < Len(row)
    /\ ~IsNone(row[rmap["item_num"] + 1])
    /\ LET s == Strip(PyStr(row[rmap["item_num"] + 1]))
       IN  s # <<>> /\ Len(s) < ItemNumberMaxLen

\* _cell(col_key): the cell of a mapped column inside the row, else None
_cell(row, rmap, col_key) ==
    IF col_key \in DOMAIN rmap /\ rmap[col_key] < Len(row)
      THEN row[rmap[col_key] + 1] ELSE NoneCell

\* the price a bidder's column holds in the row
PriceAt(row, cols, field) ==
    IF field \in DOMAIN cols /\ cols[field] < Len(row)
      THEN _safe_float(row[cols[field] + 1]) ELSE NoneCell

\* the bids of a row when a bidder with no price at all is left out
RowBidsOmitUnquoted(row, bmap) ==
    [name \in {b \in DOMAIN bmap : ~IsNone(PriceAt(row, bmap[b], "unit_price"))
                                   \/ ~IsNone(PriceAt(row, bmap[b], "ext_price"))} |->
        [unit_price |-> PriceAt(row, bmap[name], "unit_price"),
         ext_price  |-> PriceAt(row, bmap[name], "ext_price")]]

\* bids = {} ; for bidder_name, cols in bidder_map.items(): bids[bidder_name] = ...
RowBids(row, bmap) ==
    [name \in DOMAIN bmap |->
        [unit_price |-> PriceAt(row, bmap[name], "unit_price"),
         ext_price  |-> PriceAt(row, bmap[name], "ext_price")]]

\* the dictionary appended to items for a data row
RowItem(row, rmap, bmap) ==
    LET raw_desc == _cell(row, rmap, "description")
        raw_size == _cell(row, rmap, "size")
        raw_unit == _cell(row, rmap, "unit")
        raw_qty  == _cell(row, rmap, "quantity")
        raw_item == _cell(row, rmap, "item_num")
    IN  [item_number   |-> IF Truthy(raw_item) THEN Strip(PyStr(raw_item)) ELSE <<>>,
         item_type     |-> _extract_type_spec(raw_desc)[1],
         specification |-> _extract_type_spec(raw_desc)[2],
         size          |-> IF Truthy(raw_size) THEN Txt(Strip(PyStr(raw_size))) ELSE NoneCell,
         unit          |-> IF Truthy(raw_unit) THEN Txt(Upper(Strip(PyStr(raw_unit)))) ELSE NoneCell,
         quantity      |-> _safe_float(raw_qty),
         bids          |-> RowBids(row, bmap)]

MaxRows == 2

Rep(c, n) == [i \in 1..n |-> c]

\* cells of the item-number column
ItemCells ==
    {NoneCell, Num(0), Num(12), Txt(<<>>), Txt(<<" ">>), Txt(<<" ","A","1"," ">>),
     Txt(Rep("x", ItemNumberMaxLen - 1)),
     Txt(<<" ">> \o Rep("x", ItemNumberMaxLen - 1) \o <<" ">>),
     Txt(Rep("x", ItemNumberMaxLen))}

\* the cells right of the item number: description, size, quantity, then
\* the unit and extended price of W and the unit price of V
RowTails ==
    {<<Txt(<<"a"," ","B",","," ","a">>), Txt(<<"2">>), Num(3), Num(5), Num(15), Txt(<<"$","1",",","0">>)>>,
     <<Txt(<<"B"," ","a">>), NoneCell, Txt(<<"x">>), NoneCell, Txt(<<"x">>), NoneCell>>,
     <<NoneCell, Num(0), NoneCell, Txt(<<" ","7"," ">>), NoneCell>>,
     <<Txt(<<"a">>), NoneCell, Num(0), NoneCell, Num(0)>>}

FirstTail == CHOOSE t \in RowTails : Len(t) = 6 /\ t[2] = NoneCell

\* the rows of the sheet: every item cell before one tail, every tail after
\* one item cell, an empty row and a row of the item cell alone
RowSet == {<<>>, <<Num(0)>>}
          \cup {<<c>> \o FirstTail : c \in ItemCells}
          \cup {<<Txt(<<"7">>)>> \o t : t \in RowTails}

FullRfqMap == [x \in {"item_num", "description", "size", "quantity"} |->
                  CASE x = "item_num" -> 0 [] x = "description" -> 1
                    [] x = "size" -> 2 [] OTHER -> 3]
NoItemRfqMap == [x \in {"description", "quantity"} |->
                  IF x = "description" THEN 1 ELSE 3]

TwoBidders == [name \in {<<"W">>, <<"V">>} |->
                  IF name = <<"W">>
                    THEN [f \in {"unit_price", "ext_price"} |-> IF f = "unit_price" THEN 4 ELSE 5]
                    ELSE [f \in {"unit_price"} |-> 6]]

\* (rfq_map, bidder_map) as the header parse leaves them
ColumnMaps == {<<FullRfqMap, TwoBidders>>, <<NoItemRfqMap, TwoBidders>>,
               <<FullRfqMap, EmptyMap>>}

RowIdle == /\ rows = <<>> /\ rfq_map = EmptyMap /\ bidder_map = EmptyMap
           /\ row_i = 0 /\ items = <<>> /\ item_rows = <<>>

RowInit == /\ rows \in UNION {[1..n -> RowSet] : n \in 0..MaxRows}
           /\ \E m \in ColumnMaps : rfq_map = m[1] /\ bidder_map = m[2]
           /\ row_i = 0 /\ items = <<>> /\ item_rows = <<>>

\* one turn of "for row in rows[header_idx + 1:]"; item_rows records the
\* row each item was built from.
ParseRow ==
    /\ row_i < Len(rows)
    /\ row_i' = row_i + 1
    /\ IF _is_data_row(rows[row_i + 1], rfq_map)
         THEN /\ items' = Append(items, RowItem(rows[row_i + 1], rfq_map, bidder_map))
              /\ item_rows' = Append(item_rows, row_i + 1)
         ELSE UNCHANGED <<items, item_rows>>
    /\ UNCHANGED <<rows, rfq_map, bidder_map, tsVars, fbVars, optVars, dbVars,
                   parseVars, estVars>>

----------------------------------------------------------------------------
(* rfq_app.subset_enum: the split-award optimiser.  Quantities are         *)
(* integers; a price or cost is an integer that counts 1 / units_per_dollar*)
(* of a dollar; a percentage is kept in hundredths, as round(x, 2) keeps   *)
(* it.                                                                     *)

MaxPrice == 2

\* the bidder names in sorted order; the item identifiers
BidderOrder == <<"A", "B", "C">>
OptItemIds  == {1, 2}

\* the quantity column of rfq_items
QtyCells == {NoneCell, Num(0), Num(2)}

\* a row of bids: prices in the extended column, and for bidder A also
\* unit prices alone, of either sign
ExtOnlyBids == {[unit_price |-> NoneCell, ext_price |-> Num(p)] : p \in 1..MaxPrice}
UnitBids    == {[unit_price |-> Num(1), ext_price |-> NoneCell],
                [unit_price |-> Num(-1), ext_price |-> NoneCell],
                [unit_price |-> Num(MaxPrice + 1), ext_price |-> Num(MaxPrice)]}
BidsOf(b)   == IF b = "A" THEN UnitBids \cup {[unit_price |-> NoneCell, ext_price |-> Num(MaxPrice)]}
               ELSE ExtOnlyBids

Range(f) == {f[x] : x \in DOMAIN f}
Names    == Range(BidderOrder)

\* sorted(S) for a set of bidder names
Sorted(S) == SelectSeq(BidderOrder, LAMBDA b : b \in S)

\* the cost of a bid row when the quantity is replaced by 1 only if absent:
\* a quantity of 0 is multiplied as it stands
EffectiveCostZeroQty(bid, quantity) ==
    IF ~IsNone(bid.ext_price) THEN bid.ext_price
    ELSE IF ~IsNone(bid.unit_price)
      THEN Num(bid.unit_price.n * (IF IsNone(quantity) THEN 1 ELSE quantity.n))
    ELSE NoneCell

\* cost = ext_price; if None: unit_price * (quantity or 1)
EffectiveCost(bid, quantity) ==
    IF ~IsNone(bid.ext_price) THEN bid.ext_price
    ELSE IF ~IsNone(bid.unit_price)
      THEN Num(bid.unit_price.n * (IF Truthy(quantity) THEN quantity.n ELSE 1))
    ELSE NoneCell

QuantityOf(its, iid) == its[CHOOSE i \in DOMAIN its : its[i].id = iid].quantity

\* item_costs: an entry for every item that has a bid row, holding the
\* bidders whose cost is not negative
ItemCosts(its, bids) ==
    [iid \in {p[1] : p \in DOMAIN bids} |->
        [b \in {n \in Names : /\ <<iid, n>> \in DOMAIN bids
                              /\ LET c == EffectiveCost(bids[<<iid, n>>], QuantityOf(its, iid))
                                 IN  ~IsNone(c) /\ c.n >= 0} |->
            EffectiveCost(bids[<<iid, b>>], QuantityOf(its, iid)).n]]

\* the quotes of the subset's members for an item
CostsHere(costs, iid, subset) ==
    [b \in {n \in subset : iid \in DOMAIN costs /\ n \in DOMAIN costs[iid]} |-> costs[iid][b]]

\* eval_subset summing the dearest quote of each item
RECURSIVE EvalSubsetMax(_, _, _)
EvalSubsetMax(ids, costs, subset) ==
    IF ids = <<>> THEN [total |-> 0, covered |-> 0, uncovered |-> <<>>]
    ELSE LET rest == EvalSubsetMax(SubSeq(ids, 1, Len(ids) - 1), costs, subset)
             here == CostsHere(costs, ids[Len(ids)], subset)
         IN  IF DOMAIN here # {}
               THEN [rest EXCEPT !.total = @ + Max(Range(here)), !.covered = @ + 1]
             ELSE [rest EXCEPT !.uncovered = Append(@, ids[Len(ids)])]

\* eval_subset that keeps no list of the items without a quote
RECURSIVE EvalSubsetNoUncovered(_, _, _)
EvalSubsetNoUncovered(ids, costs, subset) ==
    IF ids = <<>> THEN [total |-> 0, covered |-> 0, uncovered |-> <<>>]
    ELSE LET rest == EvalSubsetNoUncovered(SubSeq(ids, 1, Len(ids) - 1), costs, subset)
             here == CostsHere(costs, ids[Len(ids)], subset)
         IN  IF DOMAIN here # {}
               THEN [rest EXCEPT !.total = @ + Min(Range(here)), !.covered = @ + 1]
             ELSE rest

\* eval_subset(bidder_set): (total_cost, covered_count, uncovered_ids)
RECURSIVE eval_subset(_, _, _)
eval_subset(ids, costs, subset) ==
    IF ids = <<>> THEN [total |-> 0, covered |-> 0, uncovered |-> <<>>]
    ELSE LET rest == eval_subset(SubSeq(ids, 1, Len(ids) - 1), costs, subset)
             here == CostsHere(costs, ids[Len(ids)], subset)
         IN  IF DOMAIN here # {}
               THEN [rest EXCEPT !.total = @ + Min(Range(here)), !.covered = @ + 1]
             ELSE [rest EXCEPT !.uncovered = Append(@, ids[Len(ids)])]

\* itertools.combinations(all_bidders, k), as positions in all_bidders:
\* the first combination, and the one after c (<<>> after the last)
FirstCombo(kk) == [i \in 1..kk |-> i]
NextCombo(c, n) ==
    LET kk    == Len(c)
        movable == {i \in 1..kk : c[i] # i + n - kk}
    IN  IF movable = {} THEN <<>>
        ELSE LET i == Max(movable)
             IN  [j \in 1..kk |-> IF j < i THEN c[j] ELSE c[i] + 1 + (j - i)]

ComboNames(c, bidders) == [i \in DOMAIN c |-> bidders[c[i]]]

\* round(num / den * 100, 2) in hundredths, for den > 0: nearest, ties to even
RoundPct(num, den) ==
    LET q == (num * 10000) \div den
        r == (num * 10000) - q * den
    IN  IF 2 * r < den THEN q
        ELSE IF 2 * r > den THEN q + 1
        ELSE IF q % 2 = 0 THEN q ELSE q + 1

\* round(x, 2) of an amount x >= 0 that counts 1 / scale of a dollar, given
\* back in the same unit: the nearest whole number of cents, ties to the
\* even cent.  The amounts are exact binary fractions, so that a tie of the
\* decimal value is a tie of the float.
Round2(x, scale) ==
    LET q == (x * 100) \div scale
        r == (x * 100) - q * scale
        cents == IF 2 * r < scale THEN q
                 ELSE IF 2 * r > scale THEN q + 1
                 ELSE IF q % 2 = 0 THEN q ELSE q + 1
    IN  (cents * scale) \div 100

\* min(costs_here, key=costs_here.get): the first of the cheapest, in the
\* order of best_subset
Winner(here, subset_seq) ==
    subset_seq[Min({i \in DOMAIN subset_seq :
                      /\ subset_seq[i] \in DOMAIN here
                      /\ \A b \in DOMAIN here : here[subset_seq[i]] <= here[b]})]

PerItem(its, costs, subset_seq) ==
    [i \in DOMAIN its |->
        LET here == CostsHere(costs, its[i].id, Range(subset_seq))
        IN  IF DOMAIN here # {}
              THEN [id |-> its[i].id, awarded_to |-> Winner(here, subset_seq),
                    awarded_cost |-> Num(here[Winner(here, subset_seq)]),
                    all_quotes |-> here, covered |-> TRUE]
            ELSE [id |-> its[i].id, awarded_to |-> "", awarded_cost |-> NoneCell,
                  all_quotes |-> EmptyMap, covered |-> FALSE]]

ItemIds(its) == [i \in DOMAIN its |-> its[i].id]

OptIdle == /\ opt_items = <<>> /\ opt_bids = EmptyMap /\ opt_pc = "idle"
           /\ item_costs = EmptyMap /\ all_bidders = <<>> /\ k = 0 /\ combo = <<>>
           /\ best_cost = NoneCell /\ best_subset = <<>> /\ best_covered = 0
           /\ best_uncovered = <<>> /\ baseline_cost = NoneCell
           /\ results = <<>> /\ response = [status |-> 0] /\ units_per_dollar = 1

\* the rows the two queries return: the items of the RFQ with one quantity,
\* and the bids that have a price
OptInit ==
    /\ \E n \in 0..Cardinality(OptItemIds) : \E q \in QtyCells :
          opt_items = [i \in 1..n |-> [id |-> i, quantity |-> q]]
    /\ \E slots \in SUBSET ({its.id : its \in Range(opt_items)} \X Names) :
          opt_bids \in [slots -> UNION {BidsOf(b) : b \in Names}]
    /\ \A p \in DOMAIN opt_bids : opt_bids[p] \in BidsOf(p[2])
    /\ opt_pc = "start"
    /\ item_costs = EmptyMap /\ all_bidders = <<>> /\ k = 0 /\ combo = <<>>
    /\ best_cost = NoneCell /\ best_subset = <<>> /\ best_covered = 0
    /\ best_uncovered = <<>> /\ baseline_cost = NoneCell
    /\ results = <<>> /\ response = [status |-> 0] /\ units_per_dollar = 1

\* the test of the items left out
NoItemsIgnored(its) == FALSE

\* if not items
NoItems(its) == its = <<>>

\* steps 1 to 3: no items is answered 404; otherwise the cost table and
\* the sorted bidder list are built
SubsetEnumLoad ==
    /\ opt_pc = "start"
    /\ IF NoItems(opt_items)
         THEN /\ response' = [status |-> 404]
              /\ opt_pc' = "done"
              /\ UNCHANGED <<item_costs, all_bidders, k>>
         ELSE /\ item_costs' = ItemCosts(opt_items, opt_bids)
              /\ all_bidders' = Sorted({p[2] : p \in DOMAIN opt_bids})
              /\ k' = 1
              /\ opt_pc' = "k_loop"
              /\ UNCHANGED response
    /\ UNCHANGED <<opt_items, opt_bids, combo, best_cost, best_subset, best_covered,
                   best_uncovered, baseline_cost, results, units_per_dollar,
                   tsVars, fbVars, rowVars, dbVars,
                   parseVars, estVars>>

\* "for k in range(1, n + 1)": the locals of one turn are reset
BeginK ==
    /\ opt_pc = "k_loop"
    /\ k <= Len(all_bidders)
    /\ best_cost' = NoneCell /\ best_subset' = <<>>
    /\ best_covered' = 0 /\ best_uncovered' = <<>>
    /\ combo' = FirstCombo(k)
    /\ opt_pc' = "combo_loop"
    /\ UNCHANGED <<opt_items, opt_bids, item_costs, all_bidders, k, baseline_cost,
                   results, response, units_per_dollar, tsVars, fbVars, rowVars, dbVars,
                   parseVars, estVars>>

\* the test with <= in the place of <
ImprovesOrTies(cost, best) == IsNone(best) \/ cost <= best.n

\* if best_cost is None or cost < best_cost
Improves(cost, best) == IsNone(best) \/ cost < best.n

\* one turn of "for combo in combinations(all_bidders, k)"
EvalCombo ==
    /\ opt_pc = "combo_loop"
    /\ combo # <<>>
    /\ LET e == eval_subset(ItemIds(opt_items), item_costs,
                            Range(ComboNames(combo, all_bidders)))
       IN  IF Improves(e.total, best_cost)
             THEN /\ best_cost' = Num(e.total)
                  /\ best_subset' = ComboNames(combo, all_bidders)
                  /\ best_covered' = e.covered
                  /\ best_uncovered' = e.uncovered
             ELSE UNCHANGED <<best_cost, best_subset, best_covered, best_uncovered>>
    /\ combo' = NextCombo(combo, Len(all_bidders))
    /\ UNCHANGED <<opt_items, opt_bids, opt_pc, item_costs, all_bidders, k,
                   baseline_cost, results, response, units_per_dollar,
                   tsVars, fbVars, rowVars, dbVars,
                   parseVars, estVars>>

\* the rest of the turn for k: the savings, the breakdown, the result entry
FinishK ==
    /\ opt_pc = "combo_loop"
    /\ combo = <<>>
    /\ LET base == IF k = 1 THEN best_cost ELSE baseline_cost
           prev == IF results = <<>> THEN NoneCell ELSE results[Len(results)].total_cost
       IN  /\ baseline_cost' = base
           /\ results' = Append(results,
                [k                   |-> k,
                 best_subset         |-> best_subset,
                 total_cost          |-> IF IsNone(best_cost) THEN NoneCell
                                         ELSE Num(Round2(best_cost.n, units_per_dollar)),
                 items_covered       |-> best_covered,
                 items_total         |-> Len(opt_items),
                 uncovered_count     |-> Len(best_uncovered),
                 savings_vs_k1_pct   |-> IF Truthy(base) /\ base.n > 0 /\ k > 1
                                           THEN Num(RoundPct(base.n - best_cost.n, base.n))
                                           ELSE NoneCell,
                 savings_vs_prev_pct |-> IF results # <<>> /\ Truthy(prev) /\ ~IsNone(best_cost)
                                           THEN Num(RoundPct(prev.n - best_cost.n, prev.n))
                                           ELSE NoneCell,
                 per_item            |-> PerItem(opt_items, item_costs, best_subset)])
    /\ k' = k + 1
    /\ opt_pc' = "k_loop"
    /\ UNCHANGED <<opt_items, opt_bids, item_costs, all_bidders, combo, best_cost,
                   best_subset, best_covered, best_uncovered, response, units_per_dollar,
                   tsVars, fbVars, rowVars, dbVars,
                   parseVars, estVars>>

\* return jsonify({... "results": results})
Respond ==
    /\ opt_pc = "k_loop"
    /\ k > Len(all_bidders)
    /\ response' = [status |-> 200]
    /\ opt_pc' = "done"
    /\ UNCHANGED <<opt_items, opt_bids, item_costs, all_bidders, k, combo, best_cost,
                   best_subset, best_covered, best_uncovered, baseline_cost, results,
                   units_per_dollar, tsVars, fbVars, rowVars, dbVars,
                   parseVars, estVars>>

----------------------------------------------------------------------------
(* rfq_db: the SQLite store.  store is the committed database; conn is the *)
(* database as the open connection sees it, with the changes of its        *)
(* transaction.  Python's sqlite3 opens a transaction before the first     *)
(* DELETE or INSERT and keeps it open until commit() or rollback().        *)

MaxCalls == 3

RfqIds == {"X", "Y"}

ParsedBid(name, up, ep) == [bidder |-> name, unit_price |-> up, ext_price |-> ep]

\* parse_excel results to load: the items, each with its bids in the order
\* of the dictionary
ParsedSet ==
    {[sheet |-> "s0", items |-> <<>>],
     [sheet |-> "s1",
      items |-> <<[item_number |-> <<"1">>, quantity |-> Num(3),
                   bids |-> <<ParsedBid("W", Num(5), Num(15)),
                              ParsedBid("V", NoneCell, Num(4))>>]>>],
     [sheet |-> "s2",
      items |-> <<[item_number |-> <<"1">>, quantity |-> NoneCell,
                   bids |-> <<ParsedBid("W", Num(7), NoneCell)>>],
                  [item_number |-> <<"2">>, quantity |-> Num(2),
                   bids |-> <<ParsedBid("W", NoneCell, NoneCell),
                              ParsedBid("V", NoneCell, Num(3))>>]>>]}

EmptyStore == [rfqs |-> {}, rfq_items |-> {}, bidders |-> {}, bids |-> {},
               seq_items |-> 0, seq_bidders |-> 0, seq_bids |-> 0]

\* the DELETE left out: the prior data of the RFQ stays
DeleteNothing(st, x) == st

\* the DELETE with foreign_keys = OFF: only the header goes
DeleteHeaderOnly(st, x) == [st EXCEPT !.rfqs = {r \in @ : r.rfq_id # x}]

\* the DELETE with no cascade from the items to the bids
DeleteKeepsBids(st, x) ==
    [st EXCEPT !.rfqs = {r \in @ : r.rfq_id # x},
               !.rfq_items = {i \in @ : i.rfq_id # x}]

\* the DELETE with no WHERE clause: every RFQ goes
DeleteEveryRfq(st, x) == [st EXCEPT !.rfqs = {}, !.rfq_items = {}, !.bids = {}]

\* DELETE FROM rfqs WHERE rfq_id=? with foreign_keys = ON: the items and
\* the bids of the RFQ go with it (ON DELETE CASCADE)
DeleteCascade(st, x) ==
    [st EXCEPT !.rfqs = {r \in @ : r.rfq_id # x},
               !.rfq_items = {i \in @ : i.rfq_id # x},
               !.bids = {b \in @ : /\ b.rfq_id # x
                                  /\ b.item_id \notin {i.id : i \in {j \in st.rfq_items : j.rfq_id = x}}}]

InsertRfq(st, x, sheet) ==
    [st EXCEPT !.rfqs = @ \cup {[rfq_id |-> x, sheet_name |-> sheet]}]

\* INSERT INTO rfq_items; cur.lastrowid is the new seq_items
InsertItem(st, x, item) ==
    [st EXCEPT !.seq_items = @ + 1,
               !.rfq_items = @ \cup {[id |-> st.seq_items + 1, rfq_id |-> x,
                                      item_number |-> item.item_number,
                                      quantity |-> item.quantity]}]

\* the identifier of some bidder record, whatever the name
BidderIdOfAny(st, name) == (CHOOSE d \in st.bidders : TRUE).id

BidderId(st, name) == (CHOOSE d \in st.bidders : d.name = name).id

\* get_or_create_bidder without the SELECT: a record is inserted each time
CreateBidderAlways(st, name) ==
    [st EXCEPT !.seq_bidders = @ + 1,
               !.bidders = @ \cup {[id |-> st.seq_bidders + 1, name |-> name]}]

\* get_or_create_bidder(name, conn): the store afterwards
get_or_create_bidder(st, name) ==
    IF \E d \in st.bidders : d.name = name THEN st
    ELSE [st EXCEPT !.seq_bidders = @ + 1,
                    !.bidders = @ \cup {[id |-> st.seq_bidders + 1, name |-> name]}]

InsertBid(st, x, item_id, bid) ==
    LET s2 == get_or_create_bidder(st, bid.bidder)
    IN  [s2 EXCEPT !.seq_bids = @ + 1,
                   !.bids = @ \cup {[id |-> s2.seq_bids + 1, rfq_id |-> x,
                                     item_id |-> item_id,
                                     bidder_id |-> BidderId(s2, bid.bidder),
                                     unit_price |-> bid.unit_price,
                                     ext_price |-> bid.ext_price]}]

\* the except branch with a commit in the place of the rollback
RollbackKeepsChanges(committed, work) == work

\* conn.rollback(): the database after the except branch
Rollback(committed, work) == committed

NoCall == [op |-> "none", rfq_id |-> "", parsed |-> [sheet |-> "", items |-> <<>>],
           item_i |-> 0, bid_j |-> 0, item_id |-> 0, failed_at |-> "none"]

DbIdle == /\ store = EmptyStore /\ conn = EmptyStore /\ db_pc = "off"
          /\ db_call = NoCall /\ db_pre = EmptyStore /\ db_outcome = "none"
          /\ db_calls = 0

DbInit == /\ store = EmptyStore /\ conn = EmptyStore /\ db_pc = "idle"
          /\ db_call = NoCall /\ db_pre = EmptyStore /\ db_outcome = "none"
          /\ db_calls = 0

\* load_parsed_rfq is called: get_conn, then the DELETE of the prior data
\* opens the transaction; db_pre keeps the database as it was at the call.
LoadDelete ==
    /\ db_pc = "idle"
    /\ db_calls < MaxCalls
    /\ \E x \in RfqIds : \E pd \in ParsedSet :
          /\ db_call' = [NoCall EXCEPT !.op = "load", !.rfq_id = x, !.parsed = pd]
          /\ conn' = DeleteCascade(store, x)
    /\ db_pre' = store
    /\ db_calls' = db_calls + 1
    /\ db_outcome' = "running"
    /\ db_pc' = "header"
    /\ UNCHANGED <<store, tsVars, fbVars, rowVars, optVars,
                   parseVars, estVars>>

LoadInsertHeader ==
    /\ db_pc = "header"
    /\ conn' = InsertRfq(conn, db_call.rfq_id, db_call.parsed.sheet)
    /\ db_call' = [db_call EXCEPT !.item_i = 1]
    /\ db_pc' = "items"
    /\ UNCHANGED <<store, db_pre, db_outcome, db_calls, tsVars, fbVars, rowVars, optVars,
                   parseVars, estVars>>

\* one turn of "for item in parsed_data.get('items', [])" up to the bids
LoadInsertItem ==
    /\ db_pc = "items"
    /\ db_call.item_i <= Len(db_call.parsed.items)
    /\ conn' = InsertItem(conn, db_call.rfq_id, db_call.parsed.items[db_call.item_i])
    /\ db_call' = [db_call EXCEPT !.item_id = conn.seq_items + 1, !.bid_j = 1]
    /\ db_pc' = "bids"
    /\ UNCHANGED <<store, db_pre, db_outcome, db_calls, tsVars, fbVars, rowVars, optVars,
                   parseVars, estVars>>

\* one turn of "for bidder_name, price_data in item.get('bids', {}).items()"
LoadInsertBid ==
    /\ db_pc = "bids"
    /\ LET bids == db_call.parsed.items[db_call.item_i].bids
       IN  /\ db_call.bid_j <= Len(bids)
           /\ conn' = IF IsNone(bids[db_call.bid_j].unit_price)
                         /\ IsNone(bids[db_call.bid_j].ext_price)
                        THEN conn
                      ELSE InsertBid(conn, db_call.rfq_id, db_call.item_id, bids[db_call.bid_j])
    /\ db_call' = [db_call EXCEPT !.bid_j = @ + 1]
    /\ UNCHANGED <<store, db_pc, db_pre, db_outcome, db_calls,
                   tsVars, fbVars, rowVars, optVars,
                   parseVars, estVars>>

\* the bids of the item are done: on to the next item
LoadNextItem ==
    /\ db_pc = "bids"
    /\ db_call.bid_j > Len(db_call.parsed.items[db_call.item_i].bids)
    /\ db_call' = [db_call EXCEPT !.item_i = @ + 1]
    /\ db_pc' = "items"
    /\ UNCHANGED <<store, conn, db_pre, db_outcome, db_calls,
                   tsVars, fbVars, rowVars, optVars,
                   parseVars, estVars>>

\* conn.commit() after the last item, then conn.close()
LoadCommit ==
    /\ db_pc = "items"
    /\ db_call.item_i > Len(db_call.parsed.items)
    /\ store' = conn
    /\ db_outcome' = "loaded"
    /\ db_pc' = "idle"
    /\ UNCHANGED <<conn, db_call, db_pre, db_calls, tsVars, fbVars, rowVars, optVars,
                   parseVars, estVars>>

\* a statement after the DELETE raises (the header insert, an item insert,
\* a bidder or bid insert, the commit): except: conn.rollback(); raise
LoadFail ==
    /\ db_pc \in {"header", "items", "bids"}
    /\ store' = Rollback(store, conn)
    /\ conn' = Rollback(store, conn)
    /\ db_call' = [db_call EXCEPT !.failed_at = db_pc]
    /\ db_outcome' = "failed"
    /\ db_pc' = "idle"
    /\ UNCHANGED <<db_pre, db_calls, tsVars, fbVars, rowVars, optVars,
                   parseVars, estVars>>

\* delete_rfq(rfq_id): DELETE, commit, close
DeleteRfq ==
    /\ db_pc = "idle"
    /\ db_calls < MaxCalls
    /\ \E x \in RfqIds :
          /\ db_call' = [NoCall EXCEPT !.op = "delete", !.rfq_id = x]
          /\ store' = DeleteCascade(store, x)
          /\ conn' = DeleteCascade(store, x)
    /\ db_pre' = store
    /\ db_calls' = db_calls + 1
    /\ db_outcome' = "deleted"
    /\ UNCHANGED <<db_pc, tsVars, fbVars, rowVars, optVars,
                   parseVars, estVars>>

----------------------------------------------------------------------------
(* rfq_parser.parse_excel up to the header row, with _find_header_row.     *)
(* sheet_rows is the list ws.iter_rows gives; sheet_name the name of the   *)
(* sheet that was picked.                                                  *)

\* rows[:15]
HEADER_SCAN_ROWS == 15
\* the search with no limit on the rows
ScanAllRows(rs) == rs
ScanRows(rs) == SubSeq(rs, 1, Min({Len(rs), HEADER_SCAN_ROWS}))

\* any(_matches(c, synonyms) for c in row)
AnyMatches(row, synonyms) == \E j \in DOMAIN row : _matches(row[j], synonyms)

\* a row with one of the two columns
IsHeaderRowEither(row) == AnyMatches(row, ITEM_NUM_SYNONYMS) \/ AnyMatches(row, DESC_SYNONYMS)

\* the test of one row in _find_header_row
IsHeaderRow(row) == AnyMatches(row, ITEM_NUM_SYNONYMS) /\ AnyMatches(row, DESC_SYNONYMS)

\* the result of parse_excel: the keys of the dictionary, its error text and
\* its sheet
NoResult == [keys |-> {}, error |-> "", sheet |-> ""]
\* an error result that does not name the sheet
ErrorResultNoSheet(msg, sheet) == [keys |-> {"error"}, error |-> msg, sheet |-> ""]
ErrorResult(msg, sheet) == [keys |-> {"error", "sheet"}, error |-> msg, sheet |-> sheet]
ParsedResult(sheet) ==
    [keys |-> {"format", "sheet", "bidders", "items", "ambiguities", "rfq_map"},
     error |-> "", sheet |-> sheet]

\* the rows in front of a header row, and how many of them a sheet may have
MaxLead == 15
MaxHeadRows == 2
FillerRow == <<Txt(<<"x">>), NoneCell, Num(3)>>
HeadRowSet ==
    {<<Txt(<<"I","t","e","m"," ","#">>), Txt(<<"d","e","s","c">>)>>,
     <<NoneCell, Txt(<<" ","I","T","E","M"," ","N","O","."," ">>), Txt(<<"D","e","s","c","r","i","p","t","i","o","n"," "," ">>)>>,
     <<Txt(<<"i","t","e","m"," ","#">>), Txt(<<"x">>)>>,
     <<Txt(<<"d","e","s","c">>), Num(1)>>,
     <<Txt(<<"i","t","e","m"," ","#","d","e","s","c">>), NoneCell>>,
     <<Txt(<<"i","t","e","m">>), Txt(<<"d","e","s","c","r">>)>>}
SheetNames == {"Bids", "Sheet1"}

HdIdle == /\ sheet_rows = <<>> /\ sheet_name = "" /\ find_i = 0
          /\ header_idx = NoneCell /\ pe_pc = "off" /\ pe_result = NoResult
          /\ ambiguities = <<>>

HdInit == /\ \E n \in 0..MaxLead : \E m \in 0..MaxHeadRows : \E hs \in [1..m -> HeadRowSet] :
                sheet_rows = Rep(FillerRow, n) \o hs
          /\ sheet_name \in SheetNames
          /\ find_i = 0 /\ header_idx = NoneCell
          /\ pe_pc = "start" /\ pe_result = NoResult /\ ambiguities = <<>>

\* if not rows: return {"error": "Sheet is empty", "sheet": sheet_name}
ParseExcelOpen ==
    /\ pe_pc = "start"
    /\ IF sheet_rows = <<>>
         THEN /\ pe_result' = ErrorResult("Sheet is empty", sheet_name)
              /\ pe_pc' = "done"
         ELSE /\ pe_pc' = "find"
              /\ UNCHANGED pe_result
    /\ UNCHANGED <<sheet_rows, sheet_name, find_i, header_idx, ambiguities,
                   tsVars, fbVars, rowVars, optVars, dbVars, dtVars, acVars, estVars>>

\* one turn of "for i, row in enumerate(rows[:15])"
FindHeaderStep ==
    /\ pe_pc = "find"
    /\ find_i < Len(ScanRows(sheet_rows))
    /\ IF IsHeaderRow(ScanRows(sheet_rows)[find_i + 1])
         THEN /\ header_idx' = Num(find_i)
              /\ pe_pc' = "found"
              /\ UNCHANGED find_i
         ELSE /\ find_i' = find_i + 1
              /\ UNCHANGED <<header_idx, pe_pc>>
    /\ UNCHANGED <<sheet_rows, sheet_name, pe_result, ambiguities,
                   tsVars, fbVars, rowVars, optVars, dbVars, dtVars, acVars, estVars>>

\* the loop ends: return None, None; parse_excel returns the error
FindHeaderNone ==
    /\ pe_pc = "find"
    /\ find_i >= Len(ScanRows(sheet_rows))
    /\ header_idx' = NoneCell
    /\ pe_result' = ErrorResult("Could not locate column header row", sheet_name)
    /\ pe_pc' = "done"
    /\ UNCHANGED <<sheet_rows, sheet_name, find_i, ambiguities,
                   tsVars, fbVars, rowVars, optVars, dbVars, dtVars, acVars, estVars>>

\* with a header row parse_excel goes on to the columns and the rows and
\* returns the parsed dictionary
ParseExcelReturn ==
    /\ pe_pc = "found"
    /\ pe_result' = ParsedResult(sheet_name)
    /\ pe_pc' = "done"
    /\ UNCHANGED <<sheet_rows, sheet_name, find_i, header_idx, ambiguities,
                   tsVars, fbVars, rowVars, optVars, dbVars, dtVars, acVars, estVars>>

----------------------------------------------------------------------------
(* rfq_parser._detect_format_b and the branch parse_excel takes on it.     *)

\* the last part of s.rsplit("_", 1), for a text with an underscore
AfterLastUnderscore(s) == SubSeq(s, LastIndex(s, {"_"}) + 1, Len(s))

DETECT_LAST_PARTS ==
   {<<"u","n","i","t","_","p","r","i","c","e">>, <<"u","n","i","t"," ","p","r","i","c","e">>, <<"t","o","t","a","l","_","p","r","i","c","e">>, <<"t","o","t","a","l"," ","p","r","i","c","e">>,
    <<"u","n","i","t","_","c","o","s","t">>, <<"e","x","t","_","p","r","i","c","e">>, <<"e","x","t","_","c","o","s","t">>, <<"u","n","i","t"," ","c","o","s","t">>, <<"e","x","t"," ","c","o","s","t">>}

\* re.search(r"(unit.?price|unit.?cost|total.?price|ext.?price|ext.?cost)", s)
\* on a lower-case text: the two words, next to each other or one character
\* apart, anywhere in the text
SearchPricePattern(s) ==
    \E pr \in RegexPairs : \E gap \in {0, 1} :
        \E i \in 0..(Len(s) - (Len(pr[1]) + gap + Len(pr[2]))) :
            /\ SubSeq(Upper(s), i + 1, i + Len(pr[1])) = pr[1]
            /\ SubSeq(Upper(s), i + Len(pr[1]) + gap + 1,
                      i + Len(pr[1]) + gap + Len(pr[2])) = pr[2]

\* first loop of _detect_format_b, for one header cell
DetectUnderscore(h) ==
    LET s == _norm(h)
    IN  /\ Contains(s, "_")
        /\ \/ AfterLastUnderscore(s) \in DETECT_LAST_PARTS
           \/ SearchPricePattern(s)

\* [A-Z0-9\-] with re.IGNORECASE
IsNameChar(c) == c \in Range(UpperChars) \cup Range(LowerChars) \cup Range(Digits) \cup {"-"}
IsLetter(c)   == c \in Range(UpperChars) \cup Range(LowerChars)

\* second loop: re.match of ^[A-Z][A-Z0-9\-]+_(UNIT_PRICE|...) at the start
DetectAnchored(h) ==
    LET s == IF Truthy(h) THEN Strip(PyStr(h)) ELSE <<>>
    IN  \E i \in 3..Len(s) :
            /\ IsLetter(s[1])
            /\ \A j \in 2..(i - 1) : IsNameChar(s[j])
            /\ s[i] = "_"
            /\ \E suf \in UnderscoreSuffixes :
                  SubSeq(Upper(s), i + 1, i + Len(suf)) = suf

\* third loop: the last two of at least three words
DetectSpaced(h) ==
    /\ Truthy(h)
    /\ LET words == Words(Replace(Lower(Strip(PyStr(h))), ">", <<".">>))
           n     == Len(words)
       IN  /\ n >= 3
           /\ (words[n - 1] \o <<" ">> \o words[n]) \in PRICE_ENDINGS_UNIT \cup PRICE_ENDINGS_EXT

\* the detector that wants a bidder prefix in front of the underscore
DetectAnchoredOrSpaced(hs) == \E j \in DOMAIN hs : DetectAnchored(hs[j]) \/ DetectSpaced(hs[j])

_detect_format_b(hs) ==
    \E j \in DOMAIN hs : DetectUnderscore(hs[j]) \/ DetectAnchored(hs[j]) \/ DetectSpaced(hs[j])

MaxDetectCols == 2
DetectCells ==
    {NoneCell, Num(0), Txt(<<"I","T","E","M"," ","#">>), Txt(<<"D","E","S","C">>),
     Txt(<<"U","N","I","T"," ","P","R","I","C","E">>), Txt(<<"U","N","I","T","_","P","R","I","C","E">>), Txt(<<"T","O","T","A","L","_","P","R","I","C","E">>), Txt(<<"E","X","T"," ","P","R","I","C","E">>),
     Txt(<<"w","1","_","U","N","I","T","_","P","R","I","C","E">>), Txt(<<"w","_","u","n","i","t"," ","p","r","i","c","e">>), Txt(<<"w"," ","U","N","I","T"," ","P","R","I","C","E">>),
     Txt(<<"w"," ","E","X","T",">"," ","P","R","I","C","E">>), Txt(<<"A","-","b","_","e","x","t","_","c","o","s","t">>), Txt(<<"w","_","x">>),
     Txt(<<"u","n","i","t","p","r","i","c","e","_","a">>), Txt(<<"w"," ","x"," ","E","X","T","E","N","D","E","D"," ","C","O","S","T">>)}

DtIdle == dt_header = <<>> /\ dt_pc = "off" /\ dt_result = FALSE /\ fmt = ""

DtInit == /\ dt_header \in UNION {[1..n -> DetectCells] : n \in 1..MaxDetectCols}
          /\ dt_pc = "call" /\ dt_result = FALSE /\ fmt = ""

\* if _detect_format_b(header_cols): fmt = "B" else: fmt = "AC"
DetectFormat ==
    /\ dt_pc = "call"
    /\ dt_result' = _detect_format_b(dt_header)
    /\ fmt' = IF _detect_format_b(dt_header) THEN "B" ELSE "AC"
    /\ dt_pc' = "done"
    /\ UNCHANGED <<dt_header, tsVars, fbVars, rowVars, optVars, dbVars, hdVars, acVars, estVars>>

----------------------------------------------------------------------------
(* rfq_parser._parse_format_ac with _find_bidder_names_above: the bidder   *)
(* names stand in a row above the header row.                              *)

SKIP_WORDS ==
   {<<"r","f","q">>, <<"n","o","n","e">>, <<"d","e","l","i","v","e","r","y">>, <<"w","e","e","k","s">>, <<"m","a","n","u","f","a","c","t","u","r","e","r">>, <<"c","o","m","m","e","n","t","s">>,
    <<"v","e","n","d","o","r"," ","c","o","m","m","e","n","t","s">>, <<"u","n","i","t"," ","p","r","i","c","e">>, <<"t","o","t","a","l"," ","p","r","i","c","e">>}

\* len(s) > 50 and len(words) > 4
CANDIDATE_MAX_LEN == 50
CANDIDATE_MAX_WORDS == 4

\* ^[\d\s\.\-\(\)\+]+$ on a stripped, non-empty text
PhoneLike(s) ==
    \A j \in DOMAIN s : s[j] \in Range(Digits) \cup Whitespace \cup {".", "-", "(", ")", "+"}

\* the candidate name of a cell of a row above the header, <<>> for none
Candidate(val) ==
    LET s == Strip(PyStr(val))
    IN  IF IsNone(val) THEN <<>>
        ELSE IF s = <<>> \/ Len(s) > CANDIDATE_MAX_LEN THEN <<>>
        ELSE IF _norm(Txt(s)) \in SKIP_WORDS THEN <<>>
        ELSE IF PhoneLike(s) THEN <<>>
        ELSE IF Contains(s, "@") THEN <<>>
        ELSE IF Len(Words(s)) > CANDIDATE_MAX_WORDS THEN <<>>
        ELSE Upper(s)

\* candidates: {col_i: name} of one row, columns counted from 0
Candidates(row) ==
    [c \in {j - 1 : j \in {x \in DOMAIN row : Candidate(row[x]) # <<>>}} |-> Candidate(row[c + 1])]

RECURSIVE SumLen(_, _)
SumLen(f, cols) == IF cols = {} THEN 0
                   ELSE LET c == CHOOSE x \in cols : TRUE
                        IN  Len(f[c]) + SumLen(f, cols \ {c})

\* the average length of the names of a row, as sum and count
AvgLen(cands) == [sum |-> SumLen(cands, DOMAIN cands), n |-> Cardinality(DOMAIN cands)]
NoAvg == [sum |-> 0, n |-> 0]

\* score >= best_score in the place of score > best_score
ScoreBeatsOrTies(avg, best) == best.n = 0 \/ avg.sum * best.n <= best.sum * avg.n
\* score > best_score with score = 1.0 / avg_len and best_score 0 at first
ScoreBeats(avg, best) == best.n = 0 \/ avg.sum * best.n < best.sum * avg.n

\* the owner is the first bidder column, whatever the price column
BidderForColFirst(names, c) ==
    IF DOMAIN names = {} THEN <<>> ELSE names[Min(DOMAIN names)]
\* bc < col_i in the place of bc <= col_i
BidderForColStrictlyLeft(names, c) ==
    IF {bc \in DOMAIN names : bc < c} = {} THEN <<>>
    ELSE names[Max({bc \in DOMAIN names : bc < c})]
\* _bidder_for_col(col_i): the name at the last bidder column that is not
\* right of col_i, <<>> for None
_bidder_for_col(names, c) ==
    IF {bc \in DOMAIN names : bc <= c} = {} THEN <<>>
    ELSE names[Max({bc \in DOMAIN names : bc <= c})]

\* the role of a header cell in _parse_format_ac
AcRole(h) ==
    IF RfqRole(h) # "none" THEN RfqRole(h)
    ELSE IF _norm(h) \in UNIT_PRICE_SYNONYMS THEN "unit_price"
    ELSE IF _norm(h) \in EXT_PRICE_SYNONYMS THEN "ext_price"
    ELSE "none"

\* the k-th key of col_roles in insertion order, which is column order
RoleCol(roles, kk) ==
    CHOOSE c \in DOMAIN roles : Cardinality({d \in DOMAIN roles : d < c}) = kk - 1

MaxAbove == 2
AboveRowSet ==
    {<<Txt(<<"S","M","P">>), Txt(<<>>), Txt(<<"E","D","G","E","N">>), Txt(<<>>)>>,
     <<Txt(<<" ","s","m","p"," ">>), NoneCell, NoneCell, NoneCell, Txt(<<"W","h","i","t","c","o"," ","I","n","c">>)>>,
     <<Txt(<<"J","o","h","n"," ","S","m","i","t","h">>), Txt(<<>>), Txt(<<"J","a","n","e"," ","A"," ","D","o","e">>), Txt(<<>>)>>,
     <<Txt(<<"5","5","5","-","1","2","3","4">>), Txt(<<"a","@","b",".","c">>), Txt(<<"R","F","Q">>), Num(12)>>,
     <<Txt(<<"S","M","P">>), NoneCell, NoneCell, Txt(<<"D","e","l","i","v","e","r","y">>)>>,
     <<Txt(<<"A","B">>), Txt(<<"o","n","e"," ","t","w","o"," ","t","h","r","e","e"," ","f","o","u","r"," ","f","i","v","e">>), Txt(<<"C","D">>), Txt(<<"E","F">>)>>,
     <<NoneCell, NoneCell, NoneCell, Txt(<<"A","C","M","E">>), Txt(<<"A","C","M","E">>)>>}
AcHeaders ==
    {<<Txt(<<"I","T","E","M"," ","#">>), Txt(<<"D","E","S","C">>), Txt(<<"U","N","I","T"," ","P","R","I","C","E">>), Txt(<<"U","N","I","T"," ","P","R","I","C","E">>)>>,
     <<Txt(<<"U","n","i","t"," ","P","r","i","c","e">>), Txt(<<"I","T","E","M"," ","#">>), Txt(<<"D","e","s","c","r","i","p","t","i","o","n">>), Txt(<<"Q","T","Y">>), Txt(<<"t","o","t","a","l"," ","p","r","i","c","e">>)>>,
     <<Txt(<<"I","t","e","m"," ","N","o">>), Txt(<<"d","e","s","c">>), Txt(<<"s","i","z","e">>), NoneCell, Txt(<<"u","n","i","t"," ","c","o","s","t">>), Txt(<<"e","x","t","."," ","c","o","s","t">>)>>}

AcIdle == /\ ac_rows = <<>> /\ ac_header = <<>> /\ ac_pc = "off" /\ ac_i = 0
          /\ bidder_names_at_col = EmptyMap /\ best_avg = NoAvg
          /\ ac_rfq_map = EmptyMap /\ col_roles = EmptyMap /\ ac_bidder_map = EmptyMap

\* the rows above the header row (header_idx of them) and the header row
AcInit == /\ ac_rows \in UNION {[1..n -> AboveRowSet] : n \in 0..MaxAbove}
          /\ ac_header \in AcHeaders
          /\ ac_pc = IF ac_rows = <<>> THEN "header" ELSE "names"
          /\ ac_i = 0
          /\ bidder_names_at_col = EmptyMap /\ best_avg = NoAvg
          /\ ac_rfq_map = EmptyMap /\ col_roles = EmptyMap /\ ac_bidder_map = EmptyMap

\* _find_bidder_names_above: one turn of "for i in range(header_idx)"
ScanBidderRow ==
    /\ ac_pc = "names"
    /\ ac_i < Len(ac_rows)
    /\ LET cands == Candidates(ac_rows[ac_i + 1])
       IN  IF Cardinality(DOMAIN cands) >= 2 /\ ScoreBeats(AvgLen(cands), best_avg)
             THEN /\ bidder_names_at_col' = cands
                  /\ best_avg' = AvgLen(cands)
           ELSE UNCHANGED <<bidder_names_at_col, best_avg>>
    /\ IF ac_i + 1 = Len(ac_rows)
         THEN ac_pc' = "header" /\ ac_i' = 0
         ELSE ac_pc' = ac_pc /\ ac_i' = ac_i + 1
    /\ UNCHANGED <<ac_rows, ac_header, ac_rfq_map, col_roles, ac_bidder_map,
                   tsVars, fbVars, rowVars, optVars, dbVars, hdVars, dtVars, estVars>>

\* step 2: one turn of "for col_i, h in enumerate(header_cols)"
MapHeaderColumn ==
    /\ ac_pc = "header"
    /\ ac_i < Len(ac_header)
    /\ LET h    == ac_header[ac_i + 1]
           role == IF IsNone(h) THEN "none" ELSE AcRole(h)
           cr   == IF role \in {"unit_price", "ext_price"}
                     THEN Put(col_roles, ac_i, role) ELSE col_roles
       IN  /\ ac_rfq_map' = IF role \in {"none", "unit_price", "ext_price"} THEN ac_rfq_map
                            ELSE Put(ac_rfq_map, role, ac_i)
           /\ col_roles' = cr
           /\ IF ac_i + 1 < Len(ac_header)
                THEN ac_pc' = ac_pc /\ ac_i' = ac_i + 1
              ELSE /\ ac_i' = 0
                   /\ ac_pc' = IF DOMAIN cr = {} THEN "done" ELSE "assign"
    /\ UNCHANGED <<ac_rows, ac_header, bidder_names_at_col, best_avg, ac_bidder_map,
                   tsVars, fbVars, rowVars, optVars, dbVars, hdVars, dtVars, estVars>>

\* step 3: one turn of "for col_i, role in col_roles.items()"
AssignPriceColumn ==
    /\ ac_pc = "assign"
    /\ ac_i < Cardinality(DOMAIN col_roles)
    /\ LET c    == RoleCol(col_roles, ac_i + 1)
           name == _bidder_for_col(bidder_names_at_col, c)
       IN  ac_bidder_map' =
              IF name = <<>> THEN ac_bidder_map
              ELSE Put(ac_bidder_map, name,
                       Put(IF name \in DOMAIN ac_bidder_map THEN ac_bidder_map[name] ELSE EmptyMap,
                           col_roles[c], c))
    /\ IF ac_i + 1 < Cardinality(DOMAIN col_roles)
         THEN ac_pc' = ac_pc /\ ac_i' = ac_i + 1
         ELSE ac_pc' = "done" /\ ac_i' = 0
    /\ UNCHANGED <<ac_rows, ac_header, bidder_names_at_col, best_avg, ac_rfq_map, col_roles,
                   tsVars, fbVars, rowVars, optVars, dbVars, hdVars, dtVars, estVars>>

----------------------------------------------------------------------------
(* rfq_parser.parse_excel from the rows of the sheet to the warnings: the  *)
(* header row is looked for, the format is chosen on it, the parser of     *)
(* that format reads the same header row, and the warnings are drawn from  *)
(* the two maps it returns.                                                *)

WARN_NO_BIDDERS == "No bidders detected automatically."
WARN_NO_ITEM    == "Could not locate Item # column."
WARN_NO_DESC    == "Could not locate Description column."

\* the warnings of an empty bidder map and of the two missing roles
Warnings(rmap, bmap) ==
    (IF DOMAIN bmap = {} THEN <<WARN_NO_BIDDERS>> ELSE <<>>)
    \o (IF "item_num" \notin DOMAIN rmap THEN <<WARN_NO_ITEM>> ELSE <<>>)
    \o (IF "description" \notin DOMAIN rmap THEN <<WARN_NO_DESC>> ELSE <<>>)

SheetHeaders ==
    {<<Txt(<<"I","T","E","M"," ","#">>), Txt(<<"D","E","S","C">>), Txt(<<"w","_","U","N","I","T","_","P","R","I","C","E">>), Txt(<<"w","_","E","X","T","_","P","R","I","C","E">>)>>,
     <<Txt(<<"I","t","e","m"," ","N","o">>), Txt(<<"D","e","s","c","r","i","p","t","i","o","n">>), Txt(<<"w"," ","U","N","I","T"," ","P","R","I","C","E">>), Txt(<<"w"," ","E","X","T","."," ","P","R","I","C","E">>)>>,
     <<Txt(<<"I","T","E","M"," ","#">>), Txt(<<"D","E","S","C">>), Txt(<<"U","N","I","T","_","P","R","I","C","E">>)>>,
     <<Txt(<<"d","e","s","c">>), Txt(<<"i","t","e","m"," ","#">>), Txt(<<"w","_","x">>), Txt(<<"T","O","T","A","L","_","P","R","I","C","E">>)>>,
     <<Txt(<<"I","T","E","M"," ","#">>), Txt(<<"D","E","S","C">>), Txt(<<"U","N","I","T"," ","P","R","I","C","E">>), Txt(<<"U","N","I","T"," ","P","R","I","C","E">>)>>,
     <<NoneCell, Txt(<<"l","i","n","e"," ","n","o",".">>), Txt(<<" ","d","e","s","c","r","i","p","t","i","o","n"," ">>), Txt(<<"Q","T","Y">>), Txt(<<"u","n","i","t"," ","c","o","s","t">>), Txt(<<"e","x","t","."," ","c","o","s","t">>)>>,
     <<Txt(<<"I","T","E","M"," ","#">>), Txt(<<"I","T","E","M"," ","#">>), Txt(<<"D","E","S","C">>), Txt(<<"Q","T","Y">>)>>}

\* rows that are no header row: one has an item number column only
NonHeaderRows ==
    {FillerRow, <<Txt(<<"I","T","E","M"," ","#">>), Txt(<<"Q","T","Y">>), Txt(<<"w","_","U","N","I","T","_","P","R","I","C","E">>)>>}

\* some rows above, then a header row or a row that is none
SheetInit ==
    /\ \E above \in UNION {[1..n -> AboveRowSet] : n \in 0..MaxAbove} :
       \E hdr \in SheetHeaders \cup NonHeaderRows :
           sheet_rows = above \o <<hdr>>
    /\ sheet_name \in {"Bids"}
    /\ find_i = 0 /\ header_idx = NoneCell
    /\ pe_pc = "start" /\ pe_result = NoResult /\ ambiguities = <<>>

\* if _detect_format_b(header_cols): fmt = "B", _parse_format_b is entered;
\* else: fmt = "AC", _parse_format_ac is entered
ChooseFormat ==
    /\ pe_pc = "found"
    /\ pe_pc' = "columns"
    /\ LET hdr == sheet_rows[header_idx.n + 1]
       IN  /\ dt_header' = hdr
           /\ dt_result' = _detect_format_b(hdr)
           /\ dt_pc' = "done"
           /\ IF _detect_format_b(hdr)
                THEN /\ fmt' = "B"
                     /\ header_cols' = hdr
                     /\ col_i' = 0
                     /\ b_rfq_map' = EmptyMap /\ b_bidder_map' = EmptyMap
                     /\ UNCHANGED acVars
              ELSE /\ fmt' = "AC"
                   /\ ac_rows' = SubSeq(sheet_rows, 1, header_idx.n)
                   /\ ac_header' = hdr
                   /\ ac_pc' = IF header_idx.n = 0 THEN "header" ELSE "names"
                   /\ ac_i' = 0
                   /\ bidder_names_at_col' = EmptyMap /\ best_avg' = NoAvg
                   /\ ac_rfq_map' = EmptyMap /\ col_roles' = EmptyMap
                   /\ ac_bidder_map' = EmptyMap
                   /\ UNCHANGED fbVars
    /\ UNCHANGED <<sheet_rows, sheet_name, find_i, header_idx, pe_result, ambiguities,
                   tsVars, rowVars, optVars, dbVars, estVars>>

\* the maps the parser of the chosen format returned
ParsedRfqMap    == IF fmt = "B" THEN b_rfq_map ELSE ac_rfq_map
ParsedBidderMap == IF fmt = "B" THEN b_bidder_map ELSE ac_bidder_map
ColumnsParsed   == \/ fmt = "B" /\ col_i = Len(header_cols)
                   \/ fmt = "AC" /\ ac_pc = "done"

\* the three tests after the parser, and the parsed dictionary
ParseExcelWarn ==
    /\ pe_pc = "columns"
    /\ ColumnsParsed
    /\ ambiguities' = Warnings(ParsedRfqMap, ParsedBidderMap)
    /\ pe_result' = ParsedResult(sheet_name)
    /\ pe_pc' = "done"
    /\ UNCHANGED <<sheet_rows, sheet_name, find_i, header_idx,
                   tsVars, fbVars, rowVars, optVars, dbVars, dtVars, acVars, estVars>>

----------------------------------------------------------------------------
(* rfq_app._jaccard: the similarity of two token sets, kept as the         *)
(* fraction inter / union; 0.0 is 0 / 1.                                   *)

Tokens == {"SMLS", "NPS", "A106", "80"}

Fraction(num, den) == [num |-> num, den |-> den]

\* the intersection over the sum of the sizes
JaccardOverSum(a, b) ==
    IF a = {} \/ b = {} THEN Fraction(0, 1)
    ELSE Fraction(Cardinality(a \cap b), Cardinality(a) + Cardinality(b))

_jaccard(a, b) ==
    IF a = {} \/ b = {} THEN Fraction(0, 1)
    ELSE IF Cardinality(a \cup b) # 0
      THEN Fraction(Cardinality(a \cap b), Cardinality(a \cup b))
    ELSE Fraction(0, 1)

JacIdle == jac_a = {} /\ jac_b = {} /\ jac_pc = "off" /\ jac_result = Fraction(0, 1)

JaccardInit == /\ jac_a \in SUBSET Tokens /\ jac_b \in SUBSET Tokens
               /\ jac_pc = "call" /\ jac_result = Fraction(0, 1)

Jaccard ==
    /\ jac_pc = "call"
    /\ jac_result' = _jaccard(jac_a, jac_b)
    /\ jac_pc' = "done"
    /\ UNCHANGED <<jac_a, jac_b, tsVars, fbVars, rowVars, optVars, dbVars, parseVars, erVars>>

----------------------------------------------------------------------------
(* rfq_app.estimate_rfq: the price estimate from historical bids.  A score *)
(* is kept as an exact fraction; a price is an integer that counts         *)
(* 1 / 100000 of a dollar, so that round(x, 4) and round(x, 2) have        *)
(* something to round.  round() on a value that lies half-way between two  *)
(* neighbours goes the way of the binary float next to it: the model       *)
(* leaves the neighbour open.                                              *)

RECURSIVE Gcd(_, _)
Gcd(a, b) == IF b = 0 THEN a ELSE Gcd(b, a % b)
Reduced(num, den) == IF num = 0 THEN Fraction(0, 1)
                     ELSE Fraction(num \div Gcd(num, den), den \div Gcd(num, den))
FracAdd(a, b) == Reduced(a.num * b.den + b.num * a.den, a.den * b.den)
FracMul(a, b) == Reduced(a.num * b.num, a.den * b.den)
FracDiv(a, b) == Reduced(a.num * b.den, a.den * b.num)
FracGeq(a, b) == a.num * b.den >= b.num * a.den
FracOfInt(n)  == Fraction(n, 1)

\* re.split(r"[\s,/\(\)\-]+", ...): the separators, and the pieces between
\* them
SPEC_SEPARATORS == Whitespace \cup {",", "/", "(", ")", "-"}
RECURSIVE SplitOn(_, _)
SplitOn(s, seps) == LET t == LStripSet(s, seps)
                        p == FirstIndex(t, seps)
                    IN  IF t = <<>> THEN <<>>
                        ELSE IF p = 0 THEN <<t>>
                        ELSE <<SubSeq(t, 1, p - 1)>> \o SplitOn(SubSeq(t, p, Len(t)), seps)
Pieces(s) == Range(SplitOn(s, SPEC_SEPARATORS))
SPEC_SKIP == {<<"A","N","D">>, <<"O","R">>, <<"T","H","E">>, <<"T","O">>, <<"O","F">>, <<"I","N">>, <<"W","I","T","H">>}
TOKEN_MIN_LEN == 2
_tokenise_spec(spec) ==
    IF ~Truthy(spec) THEN {}
    ELSE {t \in Pieces(Upper(PyStr(spec))) : Len(t) >= TOKEN_MIN_LEN /\ t \notin SPEC_SKIP}

\* (x or "").strip().upper()
SizeKey(size) == IF Truthy(size) THEN Upper(Strip(PyStr(size))) ELSE <<>>

\* 0.20, 0.25, 0.30 and 0.55
SIZE_BONUS     == Fraction(1, 5)
RETAIN_MIN     == Fraction(1, 4)
MEDIUM_MIN     == Fraction(3, 10)
HIGH_MIN       == Fraction(11, 20)
MATCHES_SHOWN  == 8

\* the score of a candidate row c for the target item
ScoreOf(titem, c) ==
    LET j == _jaccard(_tokenise_spec(titem.specification), _tokenise_spec(c.specification))
        b == FracAdd(j, SIZE_BONUS)
    IN  IF SizeKey(titem.size) # <<>> /\ SizeKey(c.size) # <<>>
           /\ SizeKey(titem.size) = SizeKey(c.size)
          THEN (IF FracGeq(b, FracOfInt(1)) THEN FracOfInt(1) ELSE b)
        ELSE Reduced(j.num, j.den)

\* score > 0.25 in the place of score >= 0.25
RetainedAbove(score) == ~FracGeq(RETAIN_MIN, score)
\* if score >= 0.25
Retained(score) == FracGeq(score, RETAIN_MIN)

\* scored: the (score, row) pairs of the retained candidates, in row order
RECURSIVE Scored(_, _)
Scored(titem, cands) ==
    IF cands = <<>> THEN <<>>
    ELSE LET sc == ScoreOf(titem, Head(cands))
         IN  (IF Retained(sc) THEN <<[score |-> sc, c |-> Head(cands)]>> ELSE <<>>)
               \o Scored(titem, Tail(cands))

\* scored.sort(key=lambda x: x[0], reverse=True): equal scores keep their
\* order
RECURSIVE SortByScore(_)
SortByScore(sq) ==
    IF sq = <<>> THEN <<>>
    ELSE LET init == SortByScore(SubSeq(sq, 1, Len(sq) - 1))
             x    == sq[Len(sq)]
             n    == Cardinality({i \in DOMAIN init : FracGeq(init[i].score, x.score)})
         IN  SubSeq(init, 1, n) \o <<x>> \o SubSeq(init, n + 1, Len(init))

\* the key of a scored row, and the rows left when a key is taken once
MatchKey(c) == <<c.rfq_id, c.bidder, c.specification>>
RECURSIVE Deduplicated(_, _)
Deduplicated(sq, seen_keys) ==
    IF sq = <<>> THEN <<>>
    ELSE IF MatchKey(Head(sq).c) \in seen_keys THEN Deduplicated(Tail(sq), seen_keys)
    ELSE <<Head(sq)>> \o Deduplicated(Tail(sq), seen_keys \cup {MatchKey(Head(sq).c)})

\* sum(w for _, w in prices_weighted) and sum(p * w for p, w in ...)
RECURSIVE SumWeights(_)
SumWeights(ms) == IF ms = <<>> THEN FracOfInt(0)
                  ELSE FracAdd(Head(ms).score, SumWeights(Tail(ms)))
RECURSIVE SumWeightedPrices(_)
SumWeightedPrices(ms) ==
    IF ms = <<>> THEN FracOfInt(0)
    ELSE FracAdd(FracMul(FracOfInt(Head(ms).c.unit_price.n), Head(ms).score),
                 SumWeightedPrices(Tail(ms)))
\* the mean of the prices without their weights
RECURSIVE SumPrices(_)
SumPrices(ms) == IF ms = <<>> THEN 0 ELSE Head(ms).c.unit_price.n + SumPrices(Tail(ms))
PlainMean(ms) == Reduced(SumPrices(ms), Len(ms))
\* wmean
WeightedMean(ms) == FracDiv(SumWeightedPrices(ms), SumWeights(ms))

RawPrices(ms) == {ms[i].c.unit_price.n : i \in DOMAIN ms}

\* round(x, d) for x >= 0, step being 10^-d in price units: the multiples
\* of step next to x
RoundChoices(x, step) ==
    LET q == x.num \div (x.den * step)
        r == x.num - q * x.den * step
    IN  IF 2 * r < x.den * step THEN {q * step}
        ELSE IF 2 * r > x.den * step THEN {(q + 1) * step}
        ELSE {q * step, (q + 1) * step}
\* round(score, 3) in thousandths
RoundScore(sc) == RoundChoices(Fraction(sc.num * 1000, sc.den), 1)

\* confidence with > in the place of >=
ConfidenceAbove(best_score) ==
    IF ~FracGeq(HIGH_MIN, best_score) THEN "HIGH"
    ELSE IF ~FracGeq(MEDIUM_MIN, best_score) THEN "MEDIUM" ELSE "LOW"
\* "HIGH" if best_score >= 0.55 else "MEDIUM" if best_score >= 0.30 else "LOW"
Confidence(best_score) ==
    IF FracGeq(best_score, HIGH_MIN) THEN "HIGH"
    ELSE IF FracGeq(best_score, MEDIUM_MIN) THEN "MEDIUM" ELSE "LOW"

\* the entry of an item without a retained candidate
NoEstimate(titem) ==
    [item |-> titem, confidence |-> "NONE", match_score |-> 0, matches |-> <<>>,
     est_unit_min |-> NoneCell, est_unit_mean |-> NoneCell, est_unit_max |-> NoneCell,
     est_ext_mean |-> NoneCell, bidders_seen |-> {}, source_rfqs |-> {}]

\* WHERE r.rfq_id != rfq_id AND r.is_potential = 0
\*   AND b.unit_price IS NOT NULL AND b.unit_price > 0
HistBids(table, rfq_id) ==
    SelectSeq(table, LAMBDA h : /\ h.rfq_id # rfq_id /\ h.is_potential = 0
                                /\ ~IsNone(h.unit_price) /\ h.unit_price.n > 0)
\* hist_by_type.get(ttype, [])
CandidatesOfType(hist, ttype) == SelectSeq(hist, LAMBDA h : h.item_type = ttype)

TARGET_RFQ == "T"
MaxTargets == 1
MaxHist    == 2

TargetItemSet ==
    {[item_type |-> <<"P","I","P","E">>, specification |-> Txt(<<"S","M","L","S",","," ","N","P","S"," ","2",","," ","A","1","0","6">>),
      size |-> Txt(<<"2"," ">>), quantity |-> Num(3)],
     [item_type |-> <<"P","I","P","E">>, specification |-> NoneCell,
      size |-> NoneCell, quantity |-> NoneCell],
     [item_type |-> <<"V","A","L","V","E">>, specification |-> Txt(<<"G","a","t","e"," ","(","6","0","0",")"," ","a","n","d"," ","a","-","b">>),
      size |-> Txt(<<"2">>), quantity |-> Num(0)]}

HistRow(ty, spec, size, rfq, pot, bidder, price) ==
    [item_type |-> ty, specification |-> spec, size |-> size, rfq_id |-> rfq,
     is_potential |-> pot, bidder |-> bidder, unit_price |-> price]
\* the joined rows of rfq_items, rfqs, bids and bidders
HistRowSet ==
    {HistRow(<<"P","I","P","E">>, Txt(<<"S","M","L","S"," ","N","P","S"," ","2"," ","A","1","0","6">>), Txt(<<"2">>), "R1", 0, "A", Num(1005)),
     HistRow(<<"P","I","P","E">>, Txt(<<"S","M","L","S"," ","N","P","S"," ","2"," ","A","1","0","6">>), NoneCell, "R1", 0, "A", Num(2500)),
     HistRow(<<"P","I","P","E">>, Txt(<<"E","R","W","-","A","5","3","/","B","3","6"," ","(","N","P","S",")">>), Txt(<<" ","2">>), "R2", 0, "B", Num(2500)),
     HistRow(<<"P","I","P","E">>, Txt(<<"N","P","S"," ","X","S">>), NoneCell, "R2", 0, "A", Num(1005)),
     HistRow(<<"P","I","P","E">>, Txt(<<"s","m","l","s"," ","n","p","s"," ","a","1","0","6"," ","b","1"," ","b","2"," ","b","3"," ","b","4"," ","b","5"," ","b","6"," ","b","7">>), Txt(<<"3">>), "R2", 0, "C", Num(1000)),
     HistRow(<<"P","I","P","E">>, Txt(<<"S","M","L","S"," ","N","P","S"," ","2"," ","A","1","0","6">>), Txt(<<"2">>), "R3", 1, "A", Num(1000))}

ErIdle == /\ er_found = FALSE /\ target_items = <<>> /\ hist_table = <<>>
          /\ hist_bids = <<>> /\ er_pc = "off" /\ er_i = 0 /\ estimates = <<>>
          /\ uncovered = 0 /\ total_low = FracOfInt(0) /\ total_mean = FracOfInt(0)
          /\ total_high = FracOfInt(0) /\ er_response = [status |-> 0]

\* the RFQ and its items, and the rows of the historical query before its
\* WHERE clause, in the order SQLite gives them
ErInit == /\ er_found \in BOOLEAN
          /\ target_items \in UNION {[1..n -> TargetItemSet] : n \in 0..MaxTargets}
          /\ ~er_found => target_items = <<>>
          /\ hist_table \in UNION {[1..n -> HistRowSet] : n \in 0..MaxHist}
          /\ hist_bids = <<>> /\ er_pc = "start" /\ er_i = 0 /\ estimates = <<>>
          /\ uncovered = 0 /\ total_low = FracOfInt(0) /\ total_mean = FracOfInt(0)
          /\ total_high = FracOfInt(0) /\ er_response = [status |-> 0]

\* steps 1 to 3: the RFQ, its items, the historical bids
EstimateOpen ==
    /\ er_pc = "start"
    /\ IF ~er_found
         THEN /\ er_response' = [status |-> 404, error |-> "not found"]
              /\ er_pc' = "done" /\ UNCHANGED hist_bids
       ELSE IF target_items = <<>>
         THEN /\ er_response' = [status |-> 404, error |-> "no items"]
              /\ er_pc' = "done" /\ UNCHANGED hist_bids
       ELSE /\ hist_bids' = HistBids(hist_table, TARGET_RFQ)
            /\ er_pc' = "items" /\ UNCHANGED er_response
    /\ UNCHANGED <<er_found, target_items, hist_table, er_i, estimates, uncovered,
                   total_low, total_mean, total_high,
                   tsVars, fbVars, rowVars, optVars, dbVars, parseVars, jacVars>>

\* step 4: one turn of "for titem in target_items".  The two rounded
\* numbers of an entry of "matches" are left out of it.
EstimateItem ==
    /\ er_pc = "items"
    /\ er_i < Len(target_items)
    /\ LET titem  == target_items[er_i + 1]
           cands  == CandidatesOfType(hist_bids, titem.item_type)
           scored == SortByScore(Scored(titem, cands))
           ms     == Deduplicated(scored, {})
           wmean  == WeightedMean(ms)
           qty    == IF Truthy(titem.quantity) THEN titem.quantity.n ELSE 0
       IN  IF cands = <<>> \/ scored = <<>>
             THEN /\ estimates' = Append(estimates, NoEstimate(titem))
                  /\ uncovered' = uncovered + 1
                  /\ UNCHANGED <<total_low, total_mean, total_high>>
           ELSE \E rnd \in [RawPrices(ms) -> UNION {RoundChoices(FracOfInt(p), 10) : p \in RawPrices(ms)}] :
                \E mean \in RoundChoices(wmean, 10) :
                \E ext \in RoundChoices(FracMul(wmean, FracOfInt(qty)), 1000) :
                \E shown \in RoundScore(scored[1].score) :
                  /\ \A p \in RawPrices(ms) : rnd[p] \in RoundChoices(FracOfInt(p), 10)
                  /\ estimates' = Append(estimates,
                        [item          |-> [titem EXCEPT !.quantity = Num(qty)],
                         confidence    |-> Confidence(scored[1].score),
                         match_score   |-> shown,
                         matches       |-> [i \in 1..Min({MATCHES_SHOWN, Len(ms)}) |-> ms[i].c],
                         est_unit_min  |-> Num(rnd[Min(RawPrices(ms))]),
                         est_unit_mean |-> Num(mean),
                         est_unit_max  |-> Num(rnd[Max(RawPrices(ms))]),
                         est_ext_mean  |-> IF qty # 0 THEN Num(ext) ELSE NoneCell,
                         bidders_seen  |-> {ms[i].c.bidder : i \in DOMAIN ms},
                         source_rfqs   |-> {ms[i].c.rfq_id : i \in DOMAIN ms}])
                  /\ total_low'  = FracAdd(total_low, FracOfInt(rnd[Min(RawPrices(ms))] * qty))
                  /\ total_mean' = FracAdd(total_mean, FracMul(wmean, FracOfInt(qty)))
                  /\ total_high' = FracAdd(total_high, FracOfInt(rnd[Max(RawPrices(ms))] * qty))
                  /\ UNCHANGED uncovered
    /\ er_i' = er_i + 1
    /\ UNCHANGED <<er_found, target_items, hist_table, hist_bids, er_pc, er_response,
                   tsVars, fbVars, rowVars, optVars, dbVars, parseVars, jacVars>>

CountOf(conf) == Cardinality({i \in DOMAIN estimates : estimates[i].confidence = conf})

\* the response after the loop
EstimateReturn ==
    /\ er_pc = "items"
    /\ er_i = Len(target_items)
    /\ \E lo \in RoundChoices(total_low, 1000) :
       \E me \in RoundChoices(total_mean, 1000) :
       \E hi \in RoundChoices(total_high, 1000) :
          er_response' =
             [status |-> 200, item_count |-> Len(estimates),
              covered |-> Len(estimates) - uncovered, uncovered |-> uncovered,
              confidence_dist |-> [HIGH |-> CountOf("HIGH"), MEDIUM |-> CountOf("MEDIUM"),
                                   LOW |-> CountOf("LOW"), NONE |-> uncovered],
              total_est_low |-> lo, total_est_mean |-> me, total_est_high |-> hi]
    /\ er_pc' = "done"
    /\ UNCHANGED <<er_found, target_items, hist_table, hist_bids, er_i, estimates,
                   uncovered, total_low, total_mean, total_high,
                   tsVars, fbVars, rowVars, optVars, dbVars, parseVars, jacVars>>

----------------------------------------------------------------------------
(* The specifications: one for each part of the program.                   *)

ParseIdle == HdIdle /\ DtIdle /\ AcIdle
EstIdle == JacIdle /\ ErIdle
OtherIdle == TsIdle /\ FbIdle /\ RowIdle /\ OptIdle /\ DbIdle

TsNext == ExtractTypeSpec
TypeSpecInit == TsInit /\ FbIdle /\ RowIdle /\ OptIdle /\ DbIdle /\ ParseIdle /\ EstIdle
SpecTypeSpec == TypeSpecInit /\ [][TsNext]_vars

FbNext == ParseFormatBColumn
FormatBInit == TsIdle /\ FbInit /\ RowIdle /\ OptIdle /\ DbIdle /\ ParseIdle /\ EstIdle
SpecFormatB == FormatBInit /\ [][FbNext]_vars

RowNext == ParseRow
RowsInit == TsIdle /\ FbIdle /\ RowInit /\ OptIdle /\ DbIdle /\ ParseIdle /\ EstIdle
SpecRows == RowsInit /\ [][RowNext]_vars

OptNext == SubsetEnumLoad \/ BeginK \/ EvalCombo \/ FinishK \/ Respond
SubsetEnumInit == TsIdle /\ FbIdle /\ RowIdle /\ OptInit /\ DbIdle /\ ParseIdle /\ EstIdle
SpecOpt == SubsetEnumInit /\ [][OptNext]_vars

\* the optimiser on two items that two bidders quote in the extended column
ScenarioPrices == {5, 6, 8, 10}
ScenarioOptInit ==
    /\ opt_items = [i \in 1..2 |-> [id |-> i, quantity |-> NoneCell]]
    /\ opt_bids \in [{1, 2} \X {"A", "B"} ->
                        {[unit_price |-> NoneCell, ext_price |-> Num(p)] : p \in ScenarioPrices}]
    /\ opt_pc = "start"
    /\ item_costs = EmptyMap /\ all_bidders = <<>> /\ k = 0 /\ combo = <<>>
    /\ best_cost = NoneCell /\ best_subset = <<>> /\ best_covered = 0
    /\ best_uncovered = <<>> /\ baseline_cost = NoneCell
    /\ results = <<>> /\ response = [status |-> 0] /\ units_per_dollar = 1
ScenarioInit == TsIdle /\ FbIdle /\ RowIdle /\ ScenarioOptInit /\ DbIdle /\ ParseIdle /\ EstIdle
SpecOptScenario == ScenarioInit /\ [][OptNext]_vars

\* the optimiser on amounts in eighths of a dollar, counted in 1 / 200 of
\* a dollar so that the cents of round(x, 2) are whole numbers too
EighthPrices == {25, 75, 200}
CentsBidders == {"A", "B"}
CentsOptInit ==
    /\ \E n \in 1..Cardinality(OptItemIds) : \E q \in {NoneCell, Num(3)} :
          opt_items = [i \in 1..n |-> [id |-> i, quantity |-> q]]
    /\ \E slots \in SUBSET ({its.id : its \in Range(opt_items)} \X CentsBidders) :
          opt_bids \in [slots -> {[unit_price |-> NoneCell, ext_price |-> Num(p)] : p \in EighthPrices}
                                  \cup {[unit_price |-> Num(25), ext_price |-> NoneCell]}]
    /\ opt_pc = "start"
    /\ item_costs = EmptyMap /\ all_bidders = <<>> /\ k = 0 /\ combo = <<>>
    /\ best_cost = NoneCell /\ best_subset = <<>> /\ best_covered = 0
    /\ best_uncovered = <<>> /\ baseline_cost = NoneCell
    /\ results = <<>> /\ response = [status |-> 0] /\ units_per_dollar = 200
CentsInit == TsIdle /\ FbIdle /\ RowIdle /\ CentsOptInit /\ DbIdle /\ ParseIdle /\ EstIdle
SpecOptCents == CentsInit /\ [][OptNext]_vars

DbNext == \/ LoadDelete \/ LoadInsertHeader \/ LoadInsertItem \/ LoadInsertBid
          \/ LoadNextItem \/ LoadCommit \/ LoadFail \/ DeleteRfq
StoreInit == TsIdle /\ FbIdle /\ RowIdle /\ OptIdle /\ DbInit /\ ParseIdle /\ EstIdle
SpecDb == StoreInit /\ [][DbNext]_vars

HeaderNext == ParseExcelOpen \/ FindHeaderStep \/ FindHeaderNone \/ ParseExcelReturn
HeaderInit == OtherIdle /\ HdInit /\ DtIdle /\ AcIdle /\ EstIdle
SpecHeader == HeaderInit /\ [][HeaderNext]_vars

DetectNext == DetectFormat
DetectInit == OtherIdle /\ HdIdle /\ DtInit /\ AcIdle /\ EstIdle
SpecDetect == DetectInit /\ [][DetectNext]_vars

FormatAcNext == ScanBidderRow \/ MapHeaderColumn \/ AssignPriceColumn
FormatAcInit == OtherIdle /\ HdIdle /\ DtIdle /\ AcInit /\ EstIdle
SpecFormatAc == FormatAcInit /\ [][FormatAcNext]_vars

JaccardNext == Jaccard
JaccardStart == OtherIdle /\ ParseIdle /\ JaccardInit /\ ErIdle
SpecJaccard == JaccardStart /\ [][JaccardNext]_vars

EstimateNext == EstimateOpen \/ EstimateItem \/ EstimateReturn
EstimateInit == OtherIdle /\ ParseIdle /\ JacIdle /\ ErInit
SpecEstimate == EstimateInit /\ [][EstimateNext]_vars

\* parse_excel with the parser of the format it chooses
ParseExcelNext == \/ ParseExcelOpen \/ FindHeaderStep \/ FindHeaderNone \/ ChooseFormat
                  \/ ParseFormatBColumn
                  \/ ScanBidderRow \/ MapHeaderColumn \/ AssignPriceColumn
                  \/ ParseExcelWarn
ParseExcelInit == OtherIdle /\ SheetInit /\ DtIdle /\ AcIdle /\ EstIdle
SpecParseExcel == ParseExcelInit /\ [][ParseExcelNext]_vars

----------------------------------------------------------------------------
(* The properties of the specification, C1 to C10.                         *)

\* the row an item was built from, and what a bidder's columns hold in it
ItemRow(j) == rows[item_rows[j]]
Quoted(row, cols) == \/ ~IsNone(PriceAt(row, cols, "unit_price"))
                     \/ ~IsNone(PriceAt(row, cols, "ext_price"))

(* C1, as stated: for every item emitted by parse_excel and every detected *)
(* bidder, the bidder is a key of the item's bids exactly when its unit    *)
(* price or its extended price for the row is not null.                    *)
C1_BidderKeyedIffQuoted ==
    \A j \in DOMAIN items : \A b \in DOMAIN bidder_map :
        b \in DOMAIN items[j].bids <=> Quoted(ItemRow(j), bidder_map[b])

(* C1, amended: every detected bidder is a key of the bids of every        *)
(* emitted item, quoted or not; each of its two prices is the converted    *)
(* cell of the bidder's column, and null when the column is unmapped,      *)
(* outside the row or does not convert.                                    *)
C1_EveryBidderKeyed ==
    \A j \in DOMAIN items :
        /\ DOMAIN items[j].bids = DOMAIN bidder_map
        /\ \A b \in DOMAIN bidder_map : \A f \in {"unit_price", "ext_price"} :
              items[j].bids[b][f] =
                  IF f \in DOMAIN bidder_map[b] /\ bidder_map[b][f] < Len(ItemRow(j))
                    THEN _safe_float(ItemRow(j)[bidder_map[b][f] + 1])
                    ELSE NoneCell

\* an item holds a bidder whose two prices are null
C1_UnquotedBidderKept ==
    \E j \in DOMAIN items : \E b \in DOMAIN items[j].bids :
        /\ IsNone(items[j].bids[b].unit_price)
        /\ IsNone(items[j].bids[b].ext_price)

(* C2: every item returned by parse_excel has an item number that is not   *)
(* empty and is shorter than 20 characters, whatever the cell of the       *)
(* item-number column holds, the number 0 included.                        *)
C2_ItemNumberNonEmptyShort ==
    \A j \in DOMAIN items :
        items[j].item_number # <<>> /\ Len(items[j].item_number) < ItemNumberMaxLen

\* the text of the item-number cell of a row, trimmed; <<>> when the column
\* is unmapped, outside the row or the cell is empty
ItemNumberText(row) ==
    IF "item_num" \in DOMAIN rfq_map /\ rfq_map["item_num"] + 1 \in DOMAIN row
         /\ ~IsNone(row[rfq_map["item_num"] + 1])
      THEN Strip(PyStr(row[rfq_map["item_num"] + 1]))
      ELSE <<>>
Qualifies(row) == ItemNumberText(row) # <<>> /\ Len(ItemNumberText(row)) < ItemNumberMaxLen

(* C3: the items are, in row order, one for each row after the header      *)
(* whose item-number column is mapped, inside the row, not empty and under *)
(* 20 characters long (as trimmed text); no other row gives an item.       *)
C3_OneItemPerQualifyingRow ==
    /\ Len(items) = Len(item_rows)
    /\ {item_rows[j] : j \in DOMAIN item_rows} = {i \in 1..row_i : Qualifies(rows[i])}
    /\ \A a, b \in DOMAIN item_rows : a < b => item_rows[a] < item_rows[b]
    /\ Len(items) = Cardinality({i \in 1..row_i : Qualifies(rows[i])})

\* all rows read: a row that gives no item stands before one that does
C3_RowSkippedThenItem ==
    /\ row_i = Len(rows)
    /\ \E i, j \in DOMAIN rows : i < j /\ ~Qualifies(rows[i]) /\ Qualifies(rows[j])
    /\ Len(items) = 1

\* the bidder name a prefix stands for: upper case, underscores stripped
PrefixName(pre) == Upper(RStripSet(LStripSet(pre, {"_"}), {"_"}))

(* C4: for every header cell made of a non-empty prefix and a recognised   *)
(* price suffix, joined by an underscore or by a space, the extractor      *)
(* records a bidder named as the prefix in upper case.                     *)
C4_PrefixBecomesBidder ==
    \A j \in 1..col_i : \A pre \in HdrPrefixes :
        (\/ \E suf \in UnderscoreSuffixes : header_cols[j] = Txt(UnderscoreHeader(pre, suf))
         \/ \E suf \in SpaceSuffixes : header_cols[j] = Txt(SpaceHeader(pre, suf)))
        => PrefixName(pre) \in DOMAIN b_bidder_map

\* the first token of a text, delimited by a comma or by white space, and
\* what follows it
Delimiters == Whitespace \cup {","}
FirstToken(t) == IF FirstIndex(t, Delimiters) = 0 THEN t
                 ELSE SubSeq(t, 1, FirstIndex(t, Delimiters) - 1)
AfterFirstToken(t) == SubSeq(t, Len(FirstToken(t)) + 1, Len(t))

KSubsets(kk) == {S \in SUBSET Range(all_bidders) : Cardinality(S) = kk}
QuotesOf(iid, S) == IF iid \in DOMAIN item_costs
                      THEN {item_costs[iid][b] : b \in S \cap DOMAIN item_costs[iid]}
                      ELSE {}
RECURSIVE SumOver(_, _)
SumOver(ids, S) == IF ids = {} THEN 0
                   ELSE LET i == CHOOSE x \in ids : TRUE
                        IN  (IF QuotesOf(i, S) = {} THEN 0 ELSE Min(QuotesOf(i, S)))
                            + SumOver(ids \ {i}, S)
SubsetCost(S) == SumOver({it.id : it \in Range(opt_items)}, S)
CoveredBy(S)  == {it.id : it \in {x \in Range(opt_items) : QuotesOf(x.id, S) # {}}}

\* a before b in the lexicographic order of their sorted names
Rank(b) == CHOOSE i \in DOMAIN BidderOrder : BidderOrder[i] = b
LexBefore(a, b) ==
    \E i \in DOMAIN a :
        /\ \A j \in 1..(i - 1) : a[j] = b[j]
        /\ Rank(a[i]) < Rank(b[i])

(* C6: for each subset size k the best subset costs no more than any other *)
(* combination of k bidders, and among the combinations of that least cost *)
(* it is the first in lexicographic order of the sorted names; so the      *)
(* best subset and its cost are a function of the cost table.              *)
C6_BestIsFirstCheapest ==
    \A r \in Range(results) :
        /\ Range(r.best_subset) \in KSubsets(r.k)
        /\ r.best_subset = Sorted(Range(r.best_subset))
        /\ r.total_cost = Num(SubsetCost(Range(r.best_subset)))
        /\ \A S \in KSubsets(r.k) :
              /\ SubsetCost(S) >= r.total_cost.n
              /\ (SubsetCost(S) = r.total_cost.n /\ S # Range(r.best_subset))
                    => LexBefore(r.best_subset, Sorted(S))

\* two combinations of two bidders tie for the least cost
C6_TieBroken ==
    \E r \in Range(results) :
        /\ r.k = 2 /\ Len(all_bidders) = 3
        /\ \E S \in KSubsets(r.k) :
              S # Range(r.best_subset) /\ SubsetCost(S) = r.total_cost.n
        /\ \E S \in KSubsets(r.k) : SubsetCost(S) > r.total_cost.n

(* C7, as stated: the total cost for k = n is at most the total cost for   *)
(* every k < n, also when some bidders quote only some of the items.       *)
C7_CostNeverGrows ==
    (opt_pc = "done" /\ results # <<>>) =>
        \A r \in Range(results) : results[Len(results)].total_cost.n <= r.total_cost.n

(* C7, amended: the total cost for k = n is at most the total cost for     *)
(* every k < n whose best subset covers as many items as all the bidders   *)
(* together; a smaller subset that leaves more items uncovered may cost    *)
(* less.                                                                   *)
C7_CostNeverGrowsAtEqualCoverage ==
    (opt_pc = "done" /\ results # <<>>) =>
        \A r \in Range(results) :
            r.items_covered = results[Len(results)].items_covered
                => results[Len(results)].total_cost.n <= r.total_cost.n

\* a bidder quotes only some items: the best single bidder covers less and
\* costs less than all three, the best pair covers what all three cover
C7_PartialQuotesEqualCoverage ==
    /\ opt_pc = "done" /\ Len(results) = 3
    /\ \E b \in Range(all_bidders) : CoveredBy({b}) # CoveredBy(Range(all_bidders))
    /\ results[1].items_covered < results[3].items_covered
    /\ results[1].total_cost.n < results[3].total_cost.n
    /\ results[2].items_covered = results[3].items_covered

(* C8: the effective cost of a bid is its extended price when that is      *)
(* present, otherwise its unit price times the quantity of the item, the   *)
(* quantity being taken as 1 only when it is absent; a bid of negative     *)
(* effective cost is not in the table.                                     *)
C8_EffectiveCost ==
    opt_pc \in {"k_loop", "combo_loop"} =>
        \A p \in DOMAIN opt_bids :
            LET c == EffectiveCostZeroQty(opt_bids[p], QuantityOf(opt_items, p[1]))
            IN  /\ p[1] \in DOMAIN item_costs
                /\ IF c.n < 0 THEN p[2] \notin DOMAIN item_costs[p[1]]
                   ELSE /\ p[2] \in DOMAIN item_costs[p[1]]
                        /\ item_costs[p[1]][p[2]] = c.n

(* C9: with no items subset_enum answers with the "no items" error and no  *)
(* results; with items it gives a result entry for every k, and an entry   *)
(* whose subset covers no item has total cost 0 and no item covered.       *)
C9_NoItemsErrorElseZeroCost ==
    /\ (opt_pc = "done" /\ opt_items = <<>>) => (response.status = 404 /\ results = <<>>)
    /\ (opt_pc = "done" /\ opt_items # <<>>) =>
          /\ response.status = 200
          /\ Len(results) = Len(all_bidders)
          /\ \A i \in DOMAIN results : results[i].k = i
    /\ \A r \in Range(results) :
          CoveredBy(Range(r.best_subset)) = {}
              => r.total_cost = Num(0) /\ r.items_covered = 0

\* the RFQ has items and the subset chosen for k = 1 covers none of them
C9_SubsetCoversNothing ==
    /\ opt_pc = "done" /\ opt_items # <<>>
    /\ results # <<>>
    /\ CoveredBy(Range(results[1].best_subset)) = {}
    /\ results[1].total_cost = Num(0)

\* the header, the items and the bids of an RFQ in a database
RfqView(st, x) ==
    [header |-> {r \in st.rfqs : r.rfq_id = x},
     items  |-> {i \in st.rfq_items : i.rfq_id = x},
     bids   |-> {b \in st.bids : b.rfq_id = x}]

(* C10: when load_parsed_rfq for an RFQ fails at a step after the delete   *)
(* of the prior data, the stored header, items and bids of the RFQ are     *)
(* what they were before the call; while the load runs the database holds  *)
(* no part of it.                                                          *)
C10_FailedLoadChangesNothing ==
    /\ db_outcome = "failed" =>
          RfqView(store, db_call.rfq_id) = RfqView(db_pre, db_call.rfq_id)
    /\ db_outcome = "running" =>
          RfqView(store, db_call.rfq_id) = RfqView(db_pre, db_call.rfq_id)

\* a reload of a loaded RFQ has failed after a bid was inserted
C10_ReloadFailedAtBid ==
    /\ db_outcome = "failed"
    /\ db_call.failed_at = "bids" /\ db_call.bid_j > 1
    /\ ~IsNone(db_call.parsed.items[db_call.item_i].bids[1].unit_price)
    /\ RfqView(db_pre, db_call.rfq_id).bids # {}
    /\ RfqView(store, db_call.rfq_id).bids # {}

----------------------------------------------------------------------------
(* The properties of the store, C11 to C14.                                *)

\* the bids of a parsed item that carry a price
QuotedBids(item) ==
    {j \in DOMAIN item.bids : ~(IsNone(item.bids[j].unit_price) /\ IsNone(item.bids[j].ext_price))}
\* the name of the bidder record a stored bid refers to
BidderNameOf(st, bid) == (CHOOSE d \in st.bidders : d.id = bid.bidder_id).name
\* the stored bid is the parsed bid pb of the stored item it
IsParsedBid(st, sb, it, pb) ==
    /\ sb.item_id = it.id
    /\ \E d \in st.bidders : d.id = sb.bidder_id /\ d.name = pb.bidder
    /\ sb.unit_price = pb.unit_price /\ sb.ext_price = pb.ext_price

(* C11: after a successful load_parsed_rfq for an RFQ the stored items of  *)
(* the RFQ are one row for each parsed item, its stored bids are the       *)
(* parsed bids with a price, and no item or bid stored for the RFQ before  *)
(* the call is left.                                                       *)
C11_LoadReplacesItemsAndBids ==
    db_outcome = "loaded" =>
        LET x   == db_call.rfq_id
            pd  == db_call.parsed
            now == RfqView(store, x)
            old == RfqView(db_pre, x)
        IN  /\ Cardinality(now.header) = 1
            /\ Cardinality(now.items) = Len(pd.items)
            /\ \A i \in DOMAIN pd.items :
                  \E it \in now.items :
                      /\ it.item_number = pd.items[i].item_number
                      /\ it.quantity = pd.items[i].quantity
                      /\ Cardinality({sb \in now.bids : sb.item_id = it.id})
                            = Cardinality(QuotedBids(pd.items[i]))
                      /\ \A j \in QuotedBids(pd.items[i]) :
                            \E sb \in now.bids : IsParsedBid(store, sb, it, pd.items[i].bids[j])
            /\ \A sb \in now.bids : \E it \in now.items : sb.item_id = it.id
            /\ {it.id : it \in now.items} \cap {it.id : it \in old.items} = {}
            /\ {sb.id : sb \in now.bids} \cap {sb.id : sb \in old.bids} = {}

\* an RFQ stored with two items and bids is loaded again with one item
C11_ReloadWithFewerItems ==
    /\ db_outcome = "loaded"
    /\ Cardinality(RfqView(db_pre, db_call.rfq_id).items) = 2
    /\ RfqView(db_pre, db_call.rfq_id).bids # {}
    /\ Len(db_call.parsed.items) = 1
    /\ Cardinality(RfqView(store, db_call.rfq_id).bids) = 2

(* C12: in every state of the store, each bid refers to exactly one stored *)
(* item and exactly one stored bidder, and no two bids have the same item  *)
(* and the same bidder.                                                    *)
C12_BidHasOneItemOneBidder ==
    \A st \in {store, conn} :
        /\ \A sb \in st.bids :
              /\ Cardinality({it \in st.rfq_items : it.id = sb.item_id}) = 1
              /\ Cardinality({d \in st.bidders : d.id = sb.bidder_id}) = 1
              /\ \A it \in st.rfq_items : it.id = sb.item_id => it.rfq_id = sb.rfq_id
        /\ \A s1, s2 \in st.bids :
              (s1.item_id = s2.item_id /\ s1.bidder_id = s2.bidder_id) => s1 = s2

\* an item is stored with the bids of two bidders, after an earlier delete
C12_TwoBiddersOnOneItem ==
    /\ db_pc = "idle" /\ db_calls = MaxCalls
    /\ \E s1, s2 \in store.bids : s1.item_id = s2.item_id /\ s1.bidder_id # s2.bidder_id
    /\ store.seq_items > Cardinality(store.rfq_items)

(* C13: when delete_rfq for an RFQ has returned, the store holds no        *)
(* header, no item and no bid of that RFQ.                                 *)
C13_DeleteLeavesNothing ==
    db_outcome = "deleted" =>
        /\ RfqView(store, db_call.rfq_id) = [header |-> {}, items |-> {}, bids |-> {}]
        /\ \A sb \in store.bids : \E it \in store.rfq_items : it.id = sb.item_id

\* an RFQ with items and bids has been deleted, another one is kept
C13_DeletedLoadedRfq ==
    /\ db_outcome = "deleted"
    /\ RfqView(db_pre, db_call.rfq_id).items # {}
    /\ RfqView(db_pre, db_call.rfq_id).bids # {}
    /\ store.rfqs # {} /\ store.bids # {}

(* C14: the bidders table never holds two records of one name, and the     *)
(* bids of two RFQs that name the same bidder refer to one bidder record:  *)
(* a load gives a name that is already stored the identifier it has.       *)
C14_OneBidderRecordPerName ==
    /\ \A st \in {store, conn} :
          \A d1, d2 \in st.bidders : (d1.name = d2.name \/ d1.id = d2.id) => d1 = d2
    /\ \A d \in db_pre.bidders : db_outcome \in {"loaded", "failed"} => d \in store.bidders
    /\ db_outcome = "loaded" =>
          \A i \in DOMAIN db_call.parsed.items : \A j \in QuotedBids(db_call.parsed.items[i]) :
              \E d \in store.bidders : d.name = db_call.parsed.items[i].bids[j].bidder
    /\ \A s1, s2 \in store.bids :
          BidderNameOf(store, s1) = BidderNameOf(store, s2) => s1.bidder_id = s2.bidder_id

\* the bids of two RFQs refer to the same bidder record
C14_BidderSharedByTwoRfqs ==
    /\ db_outcome = "loaded"
    /\ \E s1, s2 \in store.bids : s1.rfq_id # s2.rfq_id /\ s1.bidder_id = s2.bidder_id
    /\ Cardinality(store.bidders) = 2

----------------------------------------------------------------------------
(* The properties of the estimator's similarity and of the parser's start,  *)
(* C15 to C20.                                                             *)

IsOne(r)  == r.num = r.den /\ r.den # 0
IsZero(r) == r.num = 0 /\ r.den # 0

(* C15, as stated: _jaccard of any token set with itself is 1.0, and       *)
(* _jaccard of two disjoint non-empty token sets is 0.0.                   *)
C15_JaccardSelfIsOne ==
    jac_pc = "done" =>
        /\ jac_a = jac_b => IsOne(jac_result)
        /\ (jac_a # {} /\ jac_b # {} /\ jac_a \cap jac_b = {}) => IsZero(jac_result)

(* C15, amended: _jaccard of a non-empty token set with itself is 1.0;     *)
(* _jaccard is 0.0 for two disjoint non-empty token sets and whenever one  *)
(* of the two sets is empty, the empty set with itself included.           *)
C15_JaccardNonEmptySelfIsOne ==
    jac_pc = "done" =>
        /\ (jac_a = jac_b /\ jac_a # {}) => IsOne(jac_result)
        /\ (jac_a # {} /\ jac_b # {} /\ jac_a \cap jac_b = {}) => IsZero(jac_result)
        /\ (jac_a = {} \/ jac_b = {}) => IsZero(jac_result)

\* a set of two tokens compared with itself
C15_SelfCompared ==
    /\ jac_pc = "done"
    /\ jac_a = jac_b /\ Cardinality(jac_a) = 2
    /\ jac_result = Fraction(2, 2)

\* the rows _find_header_row looks at, and the test the specification gives for one
FirstRows == SubSeq(sheet_rows, 1, Min({Len(sheet_rows), HEADER_SCAN_ROWS}))
CellIsOneOf(c, synonyms) == ~IsNone(c) /\ Lower(Strip(PyStr(c))) \in synonyms
RowQualifies(row) ==
    /\ \E j \in DOMAIN row : CellIsOneOf(row[j], ITEM_NUM_SYNONYMS)
    /\ \E j \in DOMAIN row : CellIsOneOf(row[j], DESC_SYNONYMS)
QualifyingRows == {i \in DOMAIN FirstRows : RowQualifies(FirstRows[i])}

(* C16: when the sheet is empty or none of its first 15 rows qualifies as  *)
(* a header row, parse_excel returns an error result that names the sheet  *)
(* and holds nothing else: no items, no bidders, no other parse output.    *)
C16_NoHeaderGivesErrorWithSheet ==
    (pe_pc = "done" /\ (sheet_rows = <<>> \/ QualifyingRows = {})) =>
        /\ pe_result.keys = {"error", "sheet"}
        /\ pe_result.error # ""
        /\ pe_result.sheet = sheet_name

\* a sheet whose only header row is the sixteenth row has been refused
C16_LateHeaderRefused ==
    /\ pe_pc = "done"
    /\ Len(sheet_rows) > HEADER_SCAN_ROWS
    /\ RowQualifies(sheet_rows[HEADER_SCAN_ROWS + 1])
    /\ pe_result.error = "Could not locate column header row"
    /\ pe_result.sheet = sheet_name

(* C17, as stated: with the bidder-name row [SMP, "", EDGEN, ""] above the *)
(* header [ITEM #, DESC, UNIT PRICE, UNIT PRICE] the bidder-row extractor  *)
(* gives column 1 as price column to SMP and column 3 to EDGEN.            *)
ScenarioC17 ==
    /\ ac_rows = <<<<Txt(<<"S","M","P">>), Txt(<<>>), Txt(<<"E","D","G","E","N">>), Txt(<<>>)>>>>
    /\ ac_header = <<Txt(<<"I","T","E","M"," ","#">>), Txt(<<"D","E","S","C">>), Txt(<<"U","N","I","T"," ","P","R","I","C","E">>), Txt(<<"U","N","I","T"," ","P","R","I","C","E">>)>>
C17_SmpGetsColumnOne ==
    (ScenarioC17 /\ ac_pc = "done") =>
        /\ <<"S","M","P">> \in DOMAIN ac_bidder_map
        /\ 1 \in Range(ac_bidder_map[<<"S","M","P">>])
        /\ <<"E","D","G","E","N">> \in DOMAIN ac_bidder_map
        /\ 3 \in Range(ac_bidder_map[<<"E","D","G","E","N">>])

(* C17, amended: in that scenario the names are found at columns 0 and 2;  *)
(* columns 0 and 1 are the item number and the description, so SMP gets no *)
(* price column; columns 2 and 3 both fall to EDGEN, the nearest name at   *)
(* or left of them, and EDGEN's unit price is column 3, the later column   *)
(* taking the place of column 2.                                           *)
C17_EdgenGetsBothColumns ==
    (ScenarioC17 /\ ac_pc = "done") =>
        /\ bidder_names_at_col = (0 :> <<"S","M","P">> @@ 2 :> <<"E","D","G","E","N">>)
        /\ ac_rfq_map = [item_num |-> 0, description |-> 1]
        /\ col_roles = (2 :> "unit_price" @@ 3 :> "unit_price")
        /\ ac_bidder_map = (<<"E","D","G","E","N">> :> [unit_price |-> 3])

\* the scenario has run to its end
C17_ScenarioParsed ==
    /\ ScenarioC17 /\ ac_pc = "done"
    /\ DOMAIN ac_bidder_map = {<<"E","D","G","E","N">>}

(* C18, as stated: for bidders A and B and two items of costs {A:10, B:8}  *)
(* and {A:5, B:6} the optimizer gives for k=1 the subset [B] at 14, for    *)
(* k=2 a total of 11 and a saving against k=1 of 21.43 percent.            *)
ScenarioC18 ==
    /\ Len(opt_items) = 2
    /\ DOMAIN opt_bids = {1, 2} \X {"A", "B"}
    /\ opt_bids[<<1, "A">>].ext_price = Num(10) /\ opt_bids[<<1, "B">>].ext_price = Num(8)
    /\ opt_bids[<<2, "A">>].ext_price = Num(5)  /\ opt_bids[<<2, "B">>].ext_price = Num(6)
C18_TwoBiddersCostEleven ==
    (ScenarioC18 /\ opt_pc = "done") =>
        /\ results[1].best_subset = <<"B">> /\ results[1].total_cost = Num(14)
        /\ results[2].total_cost = Num(11)
        /\ results[2].savings_vs_k1_pct = Num(2143)

(* C18, amended: in that scenario k=1 gives the subset [B] at 14, and k=2  *)
(* gives [A, B] at min(10,8) + min(5,6) = 13, a saving against k=1 of      *)
(* (14 - 13) / 14 = 7.14 percent.                                          *)
C18_TwoBiddersCostThirteen ==
    (ScenarioC18 /\ opt_pc = "done") =>
        /\ Len(results) = 2
        /\ results[1].best_subset = <<"B">> /\ results[1].total_cost = Num(14)
        /\ results[1].savings_vs_k1_pct = NoneCell
        /\ results[2].best_subset = <<"A", "B">> /\ results[2].total_cost = Num(13)
        /\ results[2].savings_vs_k1_pct = Num(714)
        /\ results[2].savings_vs_prev_pct = Num(714)

\* the scenario has been optimised
C18_ScenarioOptimised ==
    /\ ScenarioC18 /\ opt_pc = "done" /\ response.status = 200
    /\ item_costs = (1 :> ("A" :> 10 @@ "B" :> 8) @@ 2 :> ("A" :> 5 @@ "B" :> 6))

(* C19: _find_header_row returns the lowest row among rows 0..14 that has  *)
(* a cell equal, trimmed and without regard to case, to an item-number     *)
(* synonym and a cell equal to a description synonym; it returns "not      *)
(* found" when there is none among the first 15 rows, whatever follows.    *)
C19_FirstQualifyingRow ==
    pe_pc \in {"found", "done"} /\ sheet_rows # <<>> =>
        IF QualifyingRows = {} THEN header_idx = NoneCell
        ELSE header_idx = Num(Min(QualifyingRows) - 1)

\* two rows qualify, below rows that do not; the upper one is returned
C19_UpperOfTwoHeaders ==
    /\ pe_pc = "found"
    /\ Cardinality(QualifyingRows) = 2
    /\ header_idx.n > 0
    /\ header_idx.n + 2 = Max(QualifyingRows)

\* the text of a header cell with its separators made one: lower case,
\* underscores as spaces, ">" as "."
Separated(h) == Replace(Replace(_norm(h), "_", <<" ">>), ">", <<".">>)
\* the cell ends in a price suffix that follows a prefix token
HasPrefixedPriceSuffix(h) ==
    \E suf \in PRICE_ENDINGS_UNIT \cup PRICE_ENDINGS_EXT :
        /\ EndsWith(Separated(h), <<" ">> \o suf)
        /\ Strip(SubSeq(Separated(h), 1, Len(Separated(h)) - Len(suf) - 1)) # <<>>

(* C20: a header is taken as compound-header format exactly when one of    *)
(* its cells, with its separators made one, ends in a recognised price     *)
(* suffix that follows a non-empty prefix token; a header without such a   *)
(* cell, a bare "UNIT_PRICE" for one, is taken as bidder-row format.       *)
C20_CompoundIffPrefixedSuffix ==
    dt_pc = "done" =>
        /\ dt_result <=> \E j \in DOMAIN dt_header : HasPrefixedPriceSuffix(dt_header[j])
        /\ fmt = IF \E j \in DOMAIN dt_header : HasPrefixedPriceSuffix(dt_header[j])
                   THEN "B" ELSE "AC"


----------------------------------------------------------------------------
(* The properties of the specification, C21 to C30.                        *)

\* the bidder-name columns at or left of column c, and the columns of the
\* header that have a price role
NameColsUpTo(c) == {bc \in DOMAIN bidder_names_at_col : bc <= c}
PriceCols == DOMAIN col_roles
\* the columns recorded in the bidder map
MappedCols == UNION {Range(ac_bidder_map[n]) : n \in DOMAIN ac_bidder_map}

\* the step of the assignment loop on column c: with a name column at or
\* left of c, c is written under the name of the greatest of them and
\* under its own role; without one the bidder map is left as it is
AssignedToNearestLeft(c) ==
    IF NameColsUpTo(c) = {} THEN ac_bidder_map' = ac_bidder_map
    ELSE LET o == CHOOSE bc \in NameColsUpTo(c) : \A x \in NameColsUpTo(c) : x <= bc
             n == bidder_names_at_col[o]
         IN  /\ n \in DOMAIN ac_bidder_map'
             /\ col_roles[c] \in DOMAIN ac_bidder_map'[n]
             /\ ac_bidder_map'[n][col_roles[c]] = c
             /\ \A m \in DOMAIN ac_bidder_map' \ {n} :
                    /\ m \in DOMAIN ac_bidder_map
                    /\ ac_bidder_map'[m] = ac_bidder_map[m]

(* C21: in bidder-row format every unit-price or ext-price header column   *)
(* is assigned to the bidder whose name column is the greatest one at or   *)
(* left of the price column, and a price column left of every name column  *)
(* is assigned to no bidder: it is in no entry of the bidder map, so no    *)
(* bid is read from it.                                                    *)
C21_PriceColumnToNearestLeftBidder ==
    /\ [][ac_pc = "assign" => AssignedToNearestLeft(RoleCol(col_roles, ac_i + 1))]_vars
    /\ [](ac_pc = "done" =>
            /\ \A c \in PriceCols : NameColsUpTo(c) = {} => c \notin MappedCols
            /\ \A n \in DOMAIN ac_bidder_map : \A r \in DOMAIN ac_bidder_map[n] :
                  LET c == ac_bidder_map[n][r]
                  IN  /\ c \in PriceCols /\ col_roles[c] = r
                      /\ NameColsUpTo(c) # {}
                      /\ bidder_names_at_col[Max(NameColsUpTo(c))] = n)

\* one price column lies left of every name column and is dropped, another
\* belongs to a name column that is not the first one
C21_DroppedAndAssigned ==
    /\ ac_pc = "done"
    /\ DOMAIN bidder_names_at_col # {}
    /\ \E c \in PriceCols : NameColsUpTo(c) = {} /\ c \notin MappedCols
    /\ \E c \in PriceCols : /\ NameColsUpTo(c) # {}
                            /\ Max(NameColsUpTo(c)) # Min(DOMAIN bidder_names_at_col)
                            /\ c \in MappedCols

\* the rows above the header with at least 2 qualifying cells, counted
\* from 1, and the total length and number of the qualifying cells of a row
RowsWithNames == {i \in DOMAIN ac_rows : Cardinality(DOMAIN Candidates(ac_rows[i])) >= 2}
NameLenSum(i) == SumLen(Candidates(ac_rows[i]), DOMAIN Candidates(ac_rows[i]))
NameCount(i)  == Cardinality(DOMAIN Candidates(ac_rows[i]))
\* the average length of row i is at most (below) that of row j
AvgAtMost(i, j) == NameLenSum(i) * NameCount(j) <= NameLenSum(j) * NameCount(i)
AvgBelow(i, j)  == NameLenSum(i) * NameCount(j) < NameLenSum(j) * NameCount(i)
\* the top-most of the rows of smallest average length
ShortestNamesRow ==
    CHOOSE i \in RowsWithNames :
        /\ \A j \in RowsWithNames : AvgAtMost(i, j)
        /\ \A j \in RowsWithNames : j < i => AvgBelow(i, j)

C22_LowerRowShorter ==
    /\ ac_pc = "done"
    /\ RowsWithNames = {1, 2}
    /\ AvgBelow(2, 1)
    /\ bidder_names_at_col = Candidates(ac_rows[2])

\* the members of a subset that have an effective cost for an item, the
\* items of the RFQ that a subset covers, and the sum over a set of covered
\* items of the cheapest cost among the members
QuotersIn(iid, subset) ==
    {b \in subset : iid \in DOMAIN item_costs /\ b \in DOMAIN item_costs[iid]}
CoveredIds(subset) == {it.id : it \in {x \in Range(opt_items) : QuotersIn(x.id, subset) # {}}}
RECURSIVE SumCheapest(_, _)
SumCheapest(ids, subset) ==
    IF ids = {} THEN 0
    ELSE LET iid == CHOOSE x \in ids : TRUE
         IN  Min({item_costs[iid][b] : b \in QuotersIn(iid, subset)})
               + SumCheapest(ids \ {iid}, subset)
\* t is the amount x at 2 decimals: a whole number of cents, the nearest to
\* x, and the even one when x lies half-way between two
IsAtTwoDecimals(t, x) ==
    LET c    == (t * 100) \div units_per_dollar
        diff == x * 100 - c * units_per_dollar
    IN  /\ t * 100 = c * units_per_dollar
        /\ 2 * diff <= units_per_dollar /\ 2 * diff >= 0 - units_per_dollar
        /\ (2 * diff = units_per_dollar \/ 2 * diff = 0 - units_per_dollar) => c % 2 = 0
\* the count of the items is kept and an item is covered exactly when a
\* member of the best subset has an effective cost for it
CoverageAccounted(r) ==
    /\ r.items_total = Len(opt_items)
    /\ r.items_covered + r.uncovered_count = r.items_total
    /\ r.items_covered = Cardinality(CoveredIds(Range(r.best_subset)))

(* C23, as stated: for every subset size k in the optimizer output,        *)
(* items_covered + uncovered_count = items_total, an item counts as        *)
(* covered exactly when a member of the best subset has an effective cost  *)
(* for it, and total_cost equals the sum over the covered items of the     *)
(* cheapest effective cost among the members that quoted the item.         *)
C23_TotalIsSumOfCheapest ==
    \A j \in DOMAIN results :
        /\ CoverageAccounted(results[j])
        /\ results[j].total_cost =
               Num(SumCheapest(CoveredIds(Range(results[j].best_subset)),
                               Range(results[j].best_subset)))

(* C23, amended: the counts are as stated, and total_cost is that sum      *)
(* rounded to 2 decimals, ties to the even cent: it equals the sum only    *)
(* when the sum is a whole number of cents.                                *)
C23_TotalIsSumAtTwoDecimals ==
    \A j \in DOMAIN results :
        /\ CoverageAccounted(results[j])
        /\ ~IsNone(results[j].total_cost)
        /\ IsAtTwoDecimals(results[j].total_cost.n,
                           SumCheapest(CoveredIds(Range(results[j].best_subset)),
                                       Range(results[j].best_subset)))

\* a best subset that covers one item of two, at a cost of 0.125, which is
\* reported as 0.12
C23_PartCoveredAndRounded ==
    /\ opt_pc = "done" /\ response.status = 200
    /\ \E j \in DOMAIN results :
          /\ results[j].items_covered = 1 /\ results[j].uncovered_count = 1
          /\ SumCheapest(CoveredIds(Range(results[j].best_subset)),
                         Range(results[j].best_subset)) = 25
          /\ results[j].total_cost = Num(24)

\* the historical bids of the type of a target item: the rows of other
\* RFQs that are not potential and carry a unit price above 0; their
\* scores, and those of the retained ones
HistoricalOfType(titem) ==
    {j \in DOMAIN hist_table :
        /\ hist_table[j].rfq_id # TARGET_RFQ /\ hist_table[j].is_potential = 0
        /\ ~IsNone(hist_table[j].unit_price) /\ hist_table[j].unit_price.n > 0
        /\ hist_table[j].item_type = titem.item_type}
RetainedOfType(titem) ==
    {j \in HistoricalOfType(titem) :
        ScoreOf(titem, hist_table[j]).num * 4 >= ScoreOf(titem, hist_table[j]).den}
BestScore(titem) ==
    LET j == CHOOSE x \in RetainedOfType(titem) :
                \A y \in RetainedOfType(titem) :
                    FracGeq(ScoreOf(titem, hist_table[x]), ScoreOf(titem, hist_table[y]))
    IN  ScoreOf(titem, hist_table[j])

(* C24: for each target item the estimator gives confidence HIGH when the  *)
(* best retained candidate score is at least 0.55, MEDIUM when it is at    *)
(* least 0.30 and LOW otherwise; an item with no retained candidate (no    *)
(* historical bid of its item type that scores at least 0.25) gets NONE    *)
(* and null for every price estimate.                                      *)
C24_ConfidenceByBestScore ==
    \A i \in DOMAIN estimates :
        LET titem == target_items[i]
            e     == estimates[i]
        IN  IF RetainedOfType(titem) = {}
              THEN /\ e.confidence = "NONE"
                   /\ IsNone(e.est_unit_min) /\ IsNone(e.est_unit_mean)
                   /\ IsNone(e.est_unit_max) /\ IsNone(e.est_ext_mean)
            ELSE e.confidence =
                   (IF BestScore(titem).num * 20 >= 11 * BestScore(titem).den THEN "HIGH"
                    ELSE IF BestScore(titem).num * 10 >= 3 * BestScore(titem).den THEN "MEDIUM"
                    ELSE "LOW")

\* an item whose best candidate scores 0.30 exactly and is MEDIUM, with a
\* candidate of its type that is not a historical bid
C24_MediumAtThreshold ==
    /\ er_pc = "done" /\ er_response.status = 200
    /\ RetainedOfType(target_items[1]) # {}
    /\ BestScore(target_items[1]) = Fraction(3, 10)
    /\ estimates[1].confidence = "MEDIUM"
    /\ \E j \in DOMAIN hist_table : j \notin HistoricalOfType(target_items[1])

\* an item with bids of its type, none of which is retained
C24_NoneBelowRetention ==
    /\ er_pc = "done" /\ er_response.status = 200
    /\ HistoricalOfType(target_items[1]) # {}
    /\ RetainedOfType(target_items[1]) = {}
    /\ estimates[1].confidence = "NONE"

\* the deduplicated candidates of a target item, best score first
Matched(titem) ==
    Deduplicated(SortByScore(Scored(titem, CandidatesOfType(HistBids(hist_table, TARGET_RFQ),
                                                            titem.item_type))), {})

(* C25: for every target item that produces an estimate, the unit-price    *)
(* estimate is the mean of the deduplicated candidates' unit prices        *)
(* weighted by their match scores, the reported minimum and maximum are    *)
(* the smallest and the largest of those prices (each of the three at the  *)
(* 4 decimals of the output), and minimum <= estimate <= maximum.          *)
C25_EstimateBetweenMinAndMax ==
    \A i \in DOMAIN estimates :
        estimates[i].confidence # "NONE" =>
            LET ms == Matched(target_items[i])
                e  == estimates[i]
            IN  /\ e.est_unit_mean.n \in RoundChoices(WeightedMean(ms), 10)
                /\ e.est_unit_min.n \in RoundChoices(FracOfInt(Min(RawPrices(ms))), 10)
                /\ e.est_unit_max.n \in RoundChoices(FracOfInt(Max(RawPrices(ms))), 10)
                /\ e.est_unit_min.n <= e.est_unit_mean.n
                /\ e.est_unit_mean.n <= e.est_unit_max.n

\* the price suffixes of the unit price and of the extended price
IsUnitSuffix(suf) == SubSeq(suf, 1, 4) = <<"U","N","I","T">>
UnitHeadersOf(pre) ==
    {UnderscoreHeader(pre, suf) : suf \in {u \in UnderscoreSuffixes : IsUnitSuffix(u)}}
    \cup {SpaceHeader(pre, suf) : suf \in {u \in SpaceSuffixes : IsUnitSuffix(u)}}
\* the extended-price headers of a prefix written in the style of unit header u
ExtHeadersLike(pre, u) ==
    IF "_" \in Range(u)
      THEN {UnderscoreHeader(pre, suf) : suf \in {x \in UnderscoreSuffixes : ~IsUnitSuffix(x)}}
    ELSE {SpaceHeader(pre, suf) : suf \in {x \in SpaceSuffixes : ~IsUnitSuffix(x)}}

\* the columns j (unit price) and e (extended price) sit in one entry
OneEntryHolds(j, e) ==
    \E name \in DOMAIN b_bidder_map :
        /\ DOMAIN b_bidder_map[name] = {"unit_price", "ext_price"}
        /\ b_bidder_map[name]["unit_price"] = j - 1
        /\ b_bidder_map[name]["ext_price"] = e - 1

(* C26: once the header row is read, a unit-price header and an            *)
(* extended-price header with the same prefix and the same separator style *)
(* are recorded under one bidder name: one entry holds both columns.       *)
C26_SamePrefixOneEntry ==
    col_i = Len(header_cols) =>
        \A j, e \in DOMAIN header_cols : \A pre \in HdrPrefixes :
            (/\ ~IsNone(header_cols[j]) /\ ~IsNone(header_cols[e])
             /\ header_cols[j].s \in UnitHeadersOf(pre)
             /\ header_cols[e].s \in ExtHeadersLike(pre, header_cols[j].s))
            => OneEntryHolds(j, e)

\* the underscore style keeps the two columns of a prefix together
C26_UnderscorePairOneEntry ==
    /\ col_i = Len(header_cols) /\ Len(header_cols) = 2
    /\ header_cols[1] = Txt(UnderscoreHeader(<<"w">>, <<"U","N","I","T","_","P","R","I","C","E">>))
    /\ header_cols[2] = Txt(UnderscoreHeader(<<"w">>, <<"E","X","T","_","P","R","I","C","E">>))
    /\ OneEntryHolds(1, 2)

(* C27: when parse_excel has taken the compound-header format for a header *)
(* row, the parser of that format has found at least one bidder in that    *)
(* row, and the warning of no bidders is not given.                        *)
C27_CompoundYieldsBidder ==
    (pe_pc = "done" /\ fmt = "B") =>
        /\ DOMAIN b_bidder_map # {}
        /\ WARN_NO_BIDDERS \notin Range(ambiguities)

\* a compound header row with its bidder found
C27_CompoundWithBidder ==
    /\ pe_pc = "done" /\ fmt = "B"
    /\ DOMAIN b_bidder_map # {}
    /\ ambiguities = <<>>

(* C28: a result of parse_excel that is not an error, in either format,    *)
(* has the item number column and the description column in its role map,  *)
(* and neither of the two warnings about them.                             *)
C28_ItemAndDescriptionLocated ==
    (pe_pc = "done" /\ "error" \notin pe_result.keys) =>
        /\ {"item_num", "description"} \subseteq DOMAIN ParsedRfqMap
        /\ WARN_NO_ITEM \notin Range(ambiguities)
        /\ WARN_NO_DESC \notin Range(ambiguities)

\* the compound format, header row below two other rows, description first
C28_LocatedInCompoundHeader ==
    /\ pe_pc = "done" /\ "error" \notin pe_result.keys
    /\ fmt = "B" /\ header_idx = Num(2)
    /\ ParsedRfqMap["description"] = 0 /\ ParsedRfqMap["item_num"] = 1

\* the other format, a header row with an empty first cell
C28_LocatedInPlainHeader ==
    /\ pe_pc = "done" /\ "error" \notin pe_result.keys
    /\ fmt = "AC"
    /\ ParsedRfqMap["item_num"] = 1 /\ ParsedRfqMap["description"] = 2

\* every reference of the tables of a database resolves
ReferencesResolve(st) ==
    /\ \A i \in st.rfq_items : \E r \in st.rfqs : r.rfq_id = i.rfq_id
    /\ \A b \in st.bids :
          /\ \E r \in st.rfqs : r.rfq_id = b.rfq_id
          /\ \E i \in st.rfq_items : i.id = b.item_id /\ i.rfq_id = b.rfq_id
          /\ \E d \in st.bidders : d.id = b.bidder_id

(* C29: at every moment of any sequence of load_parsed_rfq and delete_rfq  *)
(* calls, ended well or failed, every item of the database refers to an    *)
(* RFQ header that is there, and every bid to an item that is there and    *)
(* belongs to the RFQ of the bid, and to a bidder that is there.           *)
C29_ReferencesResolve == ReferencesResolve(store)

\* X and Y were loaded with bids; Y is deleted and the bids of X stay
C29_BidsStayThroughDelete ==
    /\ db_pc = "idle" /\ db_calls = 3 /\ db_outcome = "deleted"
    /\ db_call.rfq_id = "Y"
    /\ \E b \in db_pre.bids : b.rfq_id = "Y"
    /\ \E b \in store.bids : b.rfq_id = "X"

\* a load has failed over a database with bids
C29_BidsStayThroughFailure ==
    /\ db_pc = "idle" /\ db_outcome = "failed" /\ db_call.failed_at = "bids"
    /\ store.bids # {}

\* the header, the items and the bids of one RFQ
RfqData(st, y) ==
    [header |-> {r \in st.rfqs : r.rfq_id = y},
     items  |-> {i \in st.rfq_items : i.rfq_id = y},
     bids   |-> {b \in st.bids : b.rfq_id = y}]

(* C30: a call of load_parsed_rfq or delete_rfq for the RFQ X leaves the   *)
(* header, the items and the bids of every other RFQ as they were at the   *)
(* call, and removes no bidder record; while the call runs the database    *)
(* is as it was at the call.                                               *)
C30_OtherRfqsUntouched ==
    /\ db_pc \notin {"idle", "off"} => store = db_pre
    /\ (db_pc = "idle" /\ db_call.op # "none") =>
          /\ \A y \in RfqIds \ {db_call.rfq_id} : RfqData(store, y) = RfqData(db_pre, y)
          /\ db_pre.bidders \subseteq store.bidders

\* X is loaded over its earlier data while Y has items and bids
C30_ReloadBesideOtherRfq ==
    /\ db_pc = "idle" /\ db_outcome = "loaded" /\ db_call.rfq_id = "X"
    /\ RfqData(db_pre, "Y").bids # {}
    /\ RfqData(db_pre, "X").items # {}
    /\ RfqData(store, "X") # RfqData(db_pre, "X")

\* X is deleted while Y has items and bids
C30_DeleteBesideOtherRfq ==
    /\ db_pc = "idle" /\ db_outcome = "deleted" /\ db_call.rfq_id = "X"
    /\ RfqData(db_pre, "Y").bids # {}
    /\ RfqData(db_pre, "X").bids # {}
    /\ RfqData(store, "X").header = {}
=============================================================================
